---- MODULE Spec2Model ----
(***************************************************************************)
(* SQL Query Agent (Sihamkassim/SqlQuery-Agent).                           *)
(*                                                                         *)
(* A model of lib/agent.js (sqlQueryAgent, the refinement loop), of        *)
(* lib/tools/safetyChecker.js (checkQuerySafety), of                       *)
(* lib/tools/queryExecutor.js (executeQuerySafe, executeQuery), of         *)
(* lib/nodes/executionNodes.js and of the parts of lib/nodes/llmNodes.js   *)
(* that the orchestrator sees (generateQuery, cleanSQL,                    *)
(* summarizeResults), and of the failure branch of the /ask handler of     *)
(* server.js.                                                              *)
(*                                                                         *)
(* Spec is one run of sqlQueryAgent.  SpecTools is a caller that builds    *)
(* SQL texts and calls checkQuerySafety and executeQuerySafe on them.      *)
(* SpecRepeat is a sequence of calls of checkQuerySafety on the loaded     *)
(* module, with the lastIndex of its RegExp objects.  SpecAnyBudget is a   *)
(* run with any integer retry budget in which every awaited call settles.  *)
(* SpecModel is a run with the calls of model.generateContent that         *)
(* safeGenerate makes spelled out.  SpecPair is two runs interleaved at    *)
(* their awaits on the one loaded module.                                  *)
(*                                                                         *)
(* Texts (SQL, model responses) are sequences of one-character strings,    *)
(* so that trimming, upper-casing and the regular expressions of the       *)
(* source are computed character by character.  Messages the program       *)
(* builds from fixed literals (issues, warnings, errors) are TLA+ strings. *)
(*                                                                         *)
(* A JavaScript value that may be null or undefined is a sequence of       *)
(* length 0 (null/undefined) or 1 (Val(v)).                                *)
(***************************************************************************)
EXTENDS Integers, Sequences, FiniteSets, TLC

\* ------------------------------------------------------------------------
\* JavaScript values
\* ------------------------------------------------------------------------

null == << >>

undefined == << >>

Val(v) == << v >>

\* the value inside a non-null Val
Get(o) == o[1]

\* ------------------------------------------------------------------------
\* Characters and the String.prototype methods the source uses
\* ------------------------------------------------------------------------

LowerAlphabet ==
  << "a","b","c","d","e","f","g","h","i","j","k","l","m",
     "n","o","p","q","r","s","t","u","v","w","x","y","z" >>

UpperAlphabet ==
  << "A","B","C","D","E","F","G","H","I","J","K","L","M",
     "N","O","P","Q","R","S","T","U","V","W","X","Y","Z" >>

Digits == { "0","1","2","3","4","5","6","7","8","9" }

Range(f) == { f[i] : i \in DOMAIN f }

LowerLetters == Range(LowerAlphabet)

UpperLetters == Range(UpperAlphabet)

\* the upper-case form of each lower-case letter
UpperOf ==
  [ c \in LowerLetters |->
      UpperAlphabet[CHOOSE i \in DOMAIN LowerAlphabet : LowerAlphabet[i] = c] ]

\* the upper-case form of one (ASCII) character
UpperChar(c) == IF c \in LowerLetters THEN UpperOf[c] ELSE c

\* String.prototype.toUpperCase
toUpperCase(s) == [ i \in 1..Len(s) |-> UpperChar(s[i]) ]

\* white space of String.prototype.trim and of \s
IsSpace(c) == c \in { " ", "\t", "\n", "\r" }

\* a word character of the regular expressions: [A-Za-z0-9_]
IsWordChar(c) ==
  \/ c \in LowerLetters
  \/ c \in UpperLetters
  \/ c \in Digits
  \/ c = "_"

RECURSIVE trimStart(_)
trimStart(s) ==
  IF s # << >> /\ IsSpace(Head(s)) THEN trimStart(Tail(s)) ELSE s

RECURSIVE trimEnd(_)
trimEnd(s) ==
  IF s # << >> /\ IsSpace(s[Len(s)])
    THEN trimEnd(SubSeq(s, 1, Len(s) - 1))
    ELSE s

\* String.prototype.trim
trim(s) == trimEnd(trimStart(s))

\* String.prototype.startsWith
startsWith(s, p) ==
  /\ Len(p) <= Len(s)
  /\ SubSeq(s, 1, Len(p)) = p

\* String.prototype.endsWith
endsWith(s, p) ==
  /\ Len(p) <= Len(s)
  /\ SubSeq(s, Len(s) - Len(p) + 1, Len(s)) = p

\* p occurs in s at position i (1-based)
OccursAt(s, p, i) ==
  /\ i >= 1
  /\ i + Len(p) - 1 <= Len(s)
  /\ SubSeq(s, i, i + Len(p) - 1) = p

\* String.prototype.includes
includes(s, p) == \E i \in 1..(Len(s) + 1) : OccursAt(s, p, i)

\* p occurs in s at position i, letter case ignored (the i flag)
OccursAtIgnoreCase(s, p, i) ==
  /\ i >= 1
  /\ i + Len(p) - 1 <= Len(s)
  /\ toUpperCase(SubSeq(s, i, i + Len(p) - 1)) = toUpperCase(p)

\* p occurs somewhere in s, letter case ignored
includesIgnoreCase(s, p) == includes(toUpperCase(s), toUpperCase(p))

\* the text of a character sequence as one string
RECURSIVE Str(_)
Str(s) == IF s = << >> THEN "" ELSE Head(s) \o Str(Tail(s))

\* Array.prototype.join
RECURSIVE join(_, _)
join(a, sep) ==
  IF a = << >> THEN ""
  ELSE IF Len(a) = 1 THEN a[1]
  ELSE a[1] \o sep \o join(Tail(a), sep)

\* the elements of a that satisfy the flags in keep, in order
RECURSIVE Select(_, _)
Select(a, keep) ==
  IF a = << >> THEN << >>
  ELSE IF Head(keep) THEN << Head(a) >> \o Select(Tail(a), Tail(keep))
  ELSE Select(Tail(a), Tail(keep))

\* ------------------------------------------------------------------------
\* lib/tools/safetyChecker.js
\* ------------------------------------------------------------------------

kwSELECT == << "S","E","L","E","C","T" >>
kwLIMIT == << "L","I","M","I","T" >>
kwTOP == << "T","O","P" >>
kwDROP == << "D","R","O","P" >>
kwDELETE == << "D","E","L","E","T","E" >>
kwUPDATE == << "U","P","D","A","T","E" >>
kwINSERT == << "I","N","S","E","R","T" >>
kwTRUNCATE == << "T","R","U","N","C","A","T","E" >>
kwALTER == << "A","L","T","E","R" >>
kwCREATE == << "C","R","E","A","T","E" >>
kwGRANT == << "G","R","A","N","T" >>
kwREVOKE == << "R","E","V","O","K","E" >>
kwEXEC == << "E","X","E","C" >>
kwEXECUTE == << "E","X","E","C","U","T","E" >>

DESTRUCTIVE_KEYWORDS ==
  << kwDROP, kwDELETE, kwUPDATE, kwINSERT, kwTRUNCATE, kwALTER,
     kwCREATE, kwGRANT, kwREVOKE, kwEXEC, kwEXECUTE >>

\* the keywords of the first dangerous pattern
StackedKeywords ==
  { kwDROP, kwDELETE, kwUPDATE, kwINSERT, kwTRUNCATE, kwALTER, kwCREATE }

\* position i of s is a word boundary (\b): exactly one of the characters
\* before and at i is a word character
IsWordBoundary(s, i) ==
  LET before == i > 1 /\ i - 1 <= Len(s) /\ IsWordChar(s[i - 1])
      at == i >= 1 /\ i <= Len(s) /\ IsWordChar(s[i])
  IN before # at

\* a keyword test without the word boundaries
MatchesKeyword_substring(sqlQuery, keyword) ==
  includesIgnoreCase(sqlQuery, keyword)

\* a keyword test without the i flag
MatchesKeyword_caseSensitive(sqlQuery, keyword) ==
  \E i \in 1..Len(sqlQuery) :
    /\ OccursAt(sqlQuery, keyword, i)
    /\ IsWordBoundary(sqlQuery, i)
    /\ IsWordBoundary(sqlQuery, i + Len(keyword))

\* new RegExp(`\\b${keyword}\\b`, "i").test(sqlQuery)
MatchesKeyword(sqlQuery, keyword) ==
  LET upper == toUpperCase(sqlQuery)
  IN \E i \in 1..Len(sqlQuery) :
       /\ OccursAt(upper, toUpperCase(keyword), i)
       /\ IsWordBoundary(sqlQuery, i)
       /\ IsWordBoundary(sqlQuery, i + Len(keyword))

\* /;\s*(DROP|DELETE|UPDATE|INSERT|TRUNCATE|ALTER|CREATE)/i.test(sqlQuery)
MatchesStacked(sqlQuery) ==
  LET upper == toUpperCase(sqlQuery)
  IN \E i \in 1..Len(sqlQuery) :
       /\ sqlQuery[i] = ";"
       /\ \E j \in (i + 1)..Len(sqlQuery) :
            /\ \A k \in (i + 1)..(j - 1) : IsSpace(sqlQuery[k])
            /\ \E kw \in StackedKeywords : OccursAt(upper, kw, j)

\* DANGEROUS_PATTERNS: the test of each pattern and its toString()
DANGEROUS_PATTERNS(sqlQuery) ==
  << [ test |-> MatchesStacked(sqlQuery),
       text |-> "/;\\s*(DROP|DELETE|UPDATE|INSERT|TRUNCATE|ALTER|CREATE)/i" ],
     [ test |-> includes(sqlQuery, << "-", "-" >>),
       text |-> "/--/" ],
     [ test |-> includes(sqlQuery, << "/", "*" >>),
       text |-> "/\\/\\*/" ],
     [ test |-> includesIgnoreCase(sqlQuery, << "x", "p", "_" >>),
       text |-> "/xp_/i" ],
     [ test |-> includesIgnoreCase(sqlQuery, << "s", "p", "_" >>),
       text |-> "/sp_/i" ] >>

\* (sqlQuery.match(/;/g) || []).length
semicolonCount(sqlQuery) ==
  Cardinality({ i \in 1..Len(sqlQuery) : sqlQuery[i] = ";" })

\* a check that never reports the statement type
StatementTypeIssues_none(sqlQuery) == << >>

StatementTypeIssues(sqlQuery) ==
  IF ~startsWith(toUpperCase(trim(sqlQuery)), kwSELECT)
    THEN << "Query must be a SELECT statement" >>
    ELSE << >>

\* a keyword check that is skipped once the statement-type check failed
KeywordIssues_shortCircuited(sqlQuery) ==
  IF StatementTypeIssues(sqlQuery) # << >>
    THEN << >>
    ELSE Select([ i \in DOMAIN DESTRUCTIVE_KEYWORDS |->
                    "Destructive keyword detected: " \o Str(DESTRUCTIVE_KEYWORDS[i]) ],
                [ i \in DOMAIN DESTRUCTIVE_KEYWORDS |->
                    MatchesKeyword(sqlQuery, DESTRUCTIVE_KEYWORDS[i]) ])

KeywordIssues(sqlQuery) ==
  Select([ i \in DOMAIN DESTRUCTIVE_KEYWORDS |->
             "Destructive keyword detected: " \o Str(DESTRUCTIVE_KEYWORDS[i]) ],
         [ i \in DOMAIN DESTRUCTIVE_KEYWORDS |->
             MatchesKeyword(sqlQuery, DESTRUCTIVE_KEYWORDS[i]) ])

\* a pattern check that sets safe = false without pushing an issue
PatternIssues_none(sqlQuery) == << >>

PatternIssues(sqlQuery) ==
  LET ps == DANGEROUS_PATTERNS(sqlQuery)
  IN Select([ i \in DOMAIN ps |-> "Dangerous pattern detected: " \o ps[i].text ],
            [ i \in DOMAIN ps |-> ps[i].test ])

\* a semicolon rule that looks at the end of the untrimmed text
SemicolonIssues_untrimmed(sqlQuery) ==
  IF semicolonCount(sqlQuery) > 1
    THEN << "Multiple statements detected (SQL injection risk)" >>
  ELSE IF semicolonCount(sqlQuery) = 1 /\ ~endsWith(sqlQuery, << ";" >>)
    THEN << "Semicolon in middle of query (SQL injection risk)" >>
  ELSE << >>

SemicolonIssues(sqlQuery) ==
  IF semicolonCount(sqlQuery) > 1
    THEN << "Multiple statements detected (SQL injection risk)" >>
  ELSE IF semicolonCount(sqlQuery) = 1 /\ ~endsWith(trim(sqlQuery), << ";" >>)
    THEN << "Semicolon in middle of query (SQL injection risk)" >>
  ELSE << >>

Warnings(sqlQuery) ==
  LET normalizedQuery == toUpperCase(trim(sqlQuery))
  IN (IF includes(normalizedQuery, kwSELECT \o << " ", "*" >>)
        THEN << "Using SELECT * - consider specifying columns" >>
        ELSE << >>)
     \o
     (IF ~includes(normalizedQuery, kwLIMIT) /\ ~includes(normalizedQuery, kwTOP)
        THEN << "No LIMIT clause - query might return many rows" >>
        ELSE << >>)

\* a check in which a warning sets safe = false like an issue
checkQuerySafety_warningsBlock(sqlQuery) ==
  [ safe |->
      /\ StatementTypeIssues(sqlQuery) \o KeywordIssues(sqlQuery)
           \o PatternIssues(sqlQuery) \o SemicolonIssues(sqlQuery) = << >>
      /\ Warnings(sqlQuery) = << >>,
    issues |->
      StatementTypeIssues(sqlQuery) \o KeywordIssues(sqlQuery)
        \o PatternIssues(sqlQuery) \o SemicolonIssues(sqlQuery),
    warnings |-> Warnings(sqlQuery) ]

\* checkQuerySafety: result.safe starts true and is set to false by every
\* branch that pushes an issue; the issues and the warnings are pushed in
\* the order of the checks
checkQuerySafety(sqlQuery) ==
  LET normalizedQuery == toUpperCase(trim(sqlQuery))
      ps == DANGEROUS_PATTERNS(sqlQuery)
  IN [ safe |->
         /\ startsWith(normalizedQuery, kwSELECT)
         /\ \A i \in DOMAIN DESTRUCTIVE_KEYWORDS :
              ~MatchesKeyword(sqlQuery, DESTRUCTIVE_KEYWORDS[i])
         /\ \A i \in DOMAIN ps : ~ps[i].test
         /\ ~(semicolonCount(sqlQuery) > 1)
         /\ ~(semicolonCount(sqlQuery) = 1 /\ ~endsWith(trim(sqlQuery), << ";" >>)),
       issues |->
         StatementTypeIssues(sqlQuery) \o KeywordIssues(sqlQuery)
           \o PatternIssues(sqlQuery) \o SemicolonIssues(sqlQuery),
       warnings |-> Warnings(sqlQuery) ]

\* ------------------------------------------------------------------------
\* lib/nodes/llmNodes.js: cleanSQL
\* ------------------------------------------------------------------------

\* s.replace(/p/g, ""): every occurrence of p removed, left to right
RECURSIVE RemoveAll(_, _)
RemoveAll(s, p) ==
  IF s = << >> THEN << >>
  ELSE IF OccursAt(s, p, 1)
    THEN RemoveAll(SubSeq(s, Len(p) + 1, Len(s)), p)
  ELSE << Head(s) >> \o RemoveAll(Tail(s), p)

\* s.replace(/p/gi, "")
RECURSIVE RemoveAllIgnoreCase(_, _)
RemoveAllIgnoreCase(s, p) ==
  IF s = << >> THEN << >>
  ELSE IF OccursAtIgnoreCase(s, p, 1)
    THEN RemoveAllIgnoreCase(SubSeq(s, Len(p) + 1, Len(s)), p)
  ELSE << Head(s) >> \o RemoveAllIgnoreCase(Tail(s), p)

\* s.replace(/;$/, "")
RemoveFinalSemicolon(s) ==
  IF endsWith(s, << ";" >>) THEN SubSeq(s, 1, Len(s) - 1) ELSE s

\* the backquote character (a TLA+ string cannot hold it)
Backquote == "<backquote>"

Fence == << Backquote, Backquote, Backquote >>

cleanSQL(text) ==
  trim(RemoveFinalSemicolon(
         RemoveAll(RemoveAllIgnoreCase(trim(text), Fence \o << "s", "q", "l" >>),
                   Fence)))

\* ------------------------------------------------------------------------
\* lib/tools/queryExecutor.js
\* ------------------------------------------------------------------------

\* the text executeQuerySafe hands to executeQuery; maxRows is the text
\* that the template literal `${maxRows}` renders
LimitedQuery(sqlQuery, maxRows) ==
  IF ~includes(toUpperCase(trim(sqlQuery)), kwLIMIT)
    THEN RemoveFinalSemicolon(trim(sqlQuery))
           \o << " ", "L", "I", "M", "I", "T", " " >> \o maxRows
    ELSE trim(sqlQuery)

\* ------------------------------------------------------------------------
\* Inputs of a run and behaviours of the collaborators
\* ------------------------------------------------------------------------

\* the largest retry budget a run is started with
MaxRetriesBound == 3

Questions == { "How many users?", "Show me all users" }

\* the retry budgets of a run: at least one attempt (3 is the default, and
\* what the /ask handler passes)
MaxRetriesValues == 1..MaxRetriesBound

\* maxRows as the template literal renders it: 100 is the default, and
\* the /ask handler passes whatever JSON value the request body carries,
\* a number or a string such as "1;DROP t"
MaxRowsValues ==
  { << "1", "0", "0" >>, << "5" >>, << "1", ";", "D", "R", "O", "P", " ", "t" >> }

Schemas == { [ users |-> << [ column |-> "id", type |-> "integer",
                             nullable |-> FALSE, default |-> null ] >> ] }

\* texts the language model answers with (result.response.text())
respSelect1 == kwSELECT \o << " ", "1" >>

respSelectStar ==
  << "s","e","l","e","c","t"," ","*"," ","f","r","o","m"," ","t",";" >>

respFenced ==
  Fence \o << "s","q","l","\n" >> \o kwSELECT
    \o << " ","1"," ","L","I","M","I","T"," ","5","\n" >> \o Fence

respDrop == kwDROP \o << " ", "t" >>

respStacked == kwSELECT \o << " ","1",";" >> \o kwDROP \o << " ", "t" >>

respComment == kwSELECT \o << " ","1"," ","-","-","x" >>

respEmpty == << >>

RawResponses ==
  { respSelect1, respSelectStar, respFenced, respDrop, respStacked,
    respComment, respEmpty }

\* error.message of a failing collaborator
ErrorMessages == { "fetch failed", "quota exceeded" }

\* what pool.query resolves to
DbResults ==
  { [ rows |-> << >>, rowCount |-> 0, fields |-> undefined ],
    [ rows |-> << [ count |-> 3 ] >>, rowCount |-> 1,
      fields |-> Val(<< [ name |-> "count", dataTypeID |-> 20 ] >>) ] }

\* Date.now() - startTime, in milliseconds, as `${executionTime}ms`
ExecutionTimes == { "15ms" }

Summaries == { "There are 3 users." }

\* ------------------------------------------------------------------------
\* lib/agent.js: sqlQueryAgent
\* ------------------------------------------------------------------------

VARIABLES
  question,        \* the argument
  maxRetries,      \* options.maxRetries
  maxRows,         \* options.maxRows
  debug,           \* options.debug
  pc,              \* the call the run is awaiting, or "returned"
  schema,          \* const schema
  attempt,         \* let attempt
  previousQuery,   \* let previousQuery
  safetyFeedback,  \* let safetyFeedback
  generatedQuery,  \* const generatedQuery of the current iteration
  safeQuery,       \* let safeQuery
  safetyResult,    \* let safetyResult
  executionResult, \* const executionResult
  trace,           \* const trace
  result,          \* the value the run returned
  calls            \* every collaborator call of the run with its arguments, in order

\* a caller of the tools themselves, outside a run of the agent
VARIABLES
  sqlText,         \* the SQL text the caller holds
  edits,           \* how many fragments the caller added to the text
  checkResult,     \* what checkQuerySafety(sqlText) returned, null before the call
  submitted        \* what executeQuerySafe(sqlText, maxRows) passed to executeQuery

\* the state of the module safetyChecker.js and the calls made on it
VARIABLES
  lastIndex,       \* the lastIndex property of each RegExp of DANGEROUS_PATTERNS
  callLog          \* the calls of checkQuerySafety: each text with what was returned

VARIABLES
  modelLog,        \* the calls of model.generateContent made by the safeGenerate in progress
  modelCalls       \* how many calls of model.generateContent this request made for generation

\* a second run of sqlQueryAgent in the same process
VARIABLES
  parked,          \* the locals of the run that is suspended at an await, null when there is one run
  active           \* which of the runs the other variables hold the locals of

\* the web client (the page script)
VARIABLES
  dom,             \* the elements the script reads and writes
  stats,           \* let totalQueries, successfulQueries
  pending,         \* how many calls of askQuestion await their response
  shown            \* the responses displayed so far, the latest last

agentVars ==
  << question, maxRetries, maxRows, debug, pc, schema, attempt,
     previousQuery, safetyFeedback, generatedQuery, safeQuery, safetyResult,
     executionResult, trace, result, calls >>

toolVars == << sqlText, edits, checkResult, submitted >>

moduleVars == << lastIndex, callLog >>

llmVars == << modelLog, modelCalls >>

pairVars == << parked, active >>

clientVars == << dom, stats, pending, shown >>

vars == << agentVars, toolVars, moduleVars, llmVars, pairVars, clientVars >>

\* a JavaScript condition on a nullable text: null and "" are falsy
Falsy(o) == o = null \/ o = Val(<< >>)

\* a loop that runs once more than the budget
LoopTest_offByOne(att, max) == att <= max

\* the condition of the while loop
LoopTest(att, max) == att < max

\* a branch that accepts every verdict
IsSafe_ignored(verdict) == TRUE

\* the branch on the verdict
IsSafe(verdict) == verdict.safe

\* a loop that goes on after a safe verdict
LoopContinues_noBreak(broke, att, max) == LoopTest(att, max)

\* another iteration starts: the loop was not left by break and the
\* condition of the while loop holds
LoopContinues(broke, att, max) == ~broke /\ LoopTest(att, max)

\* a feedback joined with another separator
Feedback_commaSeparated(issues) == join(issues, ", ")

\* a feedback that also carries the advice of the LIMIT warning
Feedback_withAdvice(issues) ==
  join(issues \o << "No LIMIT clause - query might return many rows" >>, "; ")

\* safetyResult.issues.join("; ")
Feedback(issues) == join(issues, "; ")

\* a generation failure returned without the trace
GenerationFailedResult_noTrace(error, tr) ==
  [ success |-> FALSE,
    error |-> "Failed to generate SQL query",
    details |-> error,
    trace |-> undefined ]

GenerationFailedResult(error, tr) ==
  [ success |-> FALSE,
    error |-> "Failed to generate SQL query",
    details |-> error,
    trace |-> Val(tr) ]

\* a refinement failure that reports the warnings as lastIssues
ExhaustedResult_warnings(att, verdict, tr) ==
  [ success |-> FALSE,
    error |-> "Could not generate a safe query after multiple attempts",
    attempts |-> att,
    lastIssues |-> verdict.warnings,
    trace |-> Val(tr) ]

ExhaustedResult(att, verdict, tr) ==
  [ success |-> FALSE,
    error |-> "Could not generate a safe query after multiple attempts",
    attempts |-> att,
    lastIssues |-> verdict.issues,
    trace |-> Val(tr) ]

\* an execution failure that reports the text submitted to the database
ExecutionFailedResult_submittedText(execResult, query, tr) ==
  [ success |-> FALSE,
    error |-> "Query execution failed",
    details |-> execResult.error,
    query |-> LimitedQuery(query, << "1", "0", "0" >>),
    trace |-> Val(tr) ]

ExecutionFailedResult(execResult, query, tr) ==
  [ success |-> FALSE,
    error |-> "Query execution failed",
    details |-> execResult.error,
    query |-> query,
    trace |-> Val(tr) ]

\* a summary failure that drops the rows
SummaryFailedResult_noData(error, query, execResult, tr) ==
  [ success |-> FALSE,
    error |-> "Failed to generate summary",
    details |-> error,
    query |-> query,
    data |-> null,
    trace |-> Val(tr) ]

SummaryFailedResult(error, query, execResult, tr) ==
  [ success |-> FALSE,
    error |-> "Failed to generate summary",
    details |-> error,
    query |-> query,
    data |-> execResult.data,
    trace |-> Val(tr) ]

\* a success that carries the trace whatever the debug option is
SuccessResult_alwaysTrace(summary, query, execResult, att, verdict, dbg, tr) ==
  [ success |-> TRUE,
    answer |-> summary,
    query |-> query,
    data |-> [ rows |-> Get(execResult.data).rows,
               rowCount |-> Get(execResult.data).rowCount,
               executionTime |-> Get(execResult.data).executionTime ],
    metadata |-> [ attempts |-> att, warnings |-> verdict.warnings ],
    trace |-> Val(tr) ]

SuccessResult(summary, query, execResult, att, verdict, dbg, tr) ==
  [ success |-> TRUE,
    answer |-> summary,
    query |-> query,
    data |-> [ rows |-> Get(execResult.data).rows,
               rowCount |-> Get(execResult.data).rowCount,
               executionTime |-> Get(execResult.data).executionTime ],
    metadata |-> [ attempts |-> att, warnings |-> verdict.warnings ],
    trace |-> IF dbg THEN Val(tr) ELSE undefined ]

\* the catch block
UnexpectedResult(message, tr) ==
  [ success |-> FALSE,
    error |-> "Unexpected error in agent execution",
    details |-> message,
    trace |-> Val(tr) ]

\* the entry the catch block pushes
ErrorEntry(message) == [ step |-> "error", error |-> message ]

\* error.message of the TypeError of reading safetyResult.issues when
\* safetyResult is null
NullIssuesMessage == "Cannot read properties of null (reading 'issues')"

\* no direct caller of the tools
ToolsIdle ==
  /\ sqlText = << >>
  /\ edits = 0
  /\ checkResult = null
  /\ submitted = null

\* safetyChecker.js as loaded: a RegExp is created with lastIndex = 0
ModuleLoaded ==
  /\ lastIndex = [ k \in 1..5 |-> 0 ]
  /\ callLog = << >>

\* llmNodes.js as loaded: no call of the model was made
ModelIdle ==
  /\ modelLog = << >>
  /\ modelCalls = 0

\* no page of the web client is open
NoClient ==
  /\ dom = null
  /\ stats = null
  /\ pending = 0
  /\ shown = << >>

\* one run of the agent in the process
OneRun ==
  /\ parked = null
  /\ active = 1

Init ==
  /\ question \in Questions
  /\ maxRetries \in MaxRetriesValues
  /\ maxRows \in MaxRowsValues
  /\ debug \in BOOLEAN
  /\ pc = "extractSchema"
  /\ schema = undefined
  /\ attempt = 0
  /\ previousQuery = null
  /\ safetyFeedback = null
  /\ generatedQuery = undefined
  /\ safeQuery = null
  /\ safetyResult = null
  /\ executionResult = undefined
  /\ trace = << >>
  /\ result = undefined
  /\ calls = << >>
  /\ ToolsIdle
  /\ ModuleLoaded
  /\ ModelIdle
  /\ OneRun
  /\ NoClient

\* return r, with trace the array that r.trace refers to
Return(r, tr) ==
  /\ pc' = "returned"
  /\ result' = Val(r)
  /\ trace' = tr

\* the top of the while loop and what follows the loop, reached with the
\* given values of the locals: the next iteration starts (attempt++ and the
\* call of generateQuery), or the loop is left and the run returns the
\* refinement failure or calls executionNode.  Reading safetyResult.issues
\* when safetyResult is null throws a TypeError, which the catch block
\* reports.
LoopTop(att, broke, safeQ, verdict, tr) ==
  IF LoopContinues(broke, att, maxRetries)
    THEN /\ attempt' = att + 1
         /\ pc' = "generateQuery"
         /\ trace' = tr
         /\ UNCHANGED result
    ELSE /\ attempt' = att
         /\ IF Falsy(safeQ)
              THEN IF verdict = null
                     THEN Return(UnexpectedResult(NullIssuesMessage,
                                   Append(tr, ErrorEntry(NullIssuesMessage))),
                                 Append(tr, ErrorEntry(NullIssuesMessage)))
                     ELSE Return(ExhaustedResult(att, Get(verdict), tr), tr)
              ELSE /\ pc' = "executionNode"
                   /\ trace' = tr
                   /\ UNCHANGED result

\* await extractSchema() resolves
ExtractSchemaOk ==
  /\ pc = "extractSchema"
  /\ \E sch \in Schemas :
       /\ schema' = Val(sch)
       /\ calls' = Append(calls, [ port |-> "extractSchema", ok |-> TRUE ])
       /\ LoopTop(attempt, FALSE, safeQuery, safetyResult,
                  Append(trace, [ step |-> "schema_extraction", success |-> TRUE ]))
  /\ UNCHANGED << toolVars, moduleVars, llmVars, pairVars, clientVars >>
  /\ UNCHANGED << question, maxRetries, maxRows, debug, previousQuery,
                  safetyFeedback, generatedQuery, safeQuery, safetyResult,
                  executionResult >>

\* a rejected extractSchema() whose error is swallowed: the run goes on
\* without a schema
ExtractSchemaThrows_swallowed ==
  /\ pc = "extractSchema"
  /\ calls' = Append(calls, [ port |-> "extractSchema", ok |-> FALSE ])
  /\ LoopTop(attempt, FALSE, safeQuery, safetyResult, trace)
  /\ UNCHANGED << toolVars, moduleVars, llmVars, pairVars, clientVars >>
  /\ UNCHANGED << question, maxRetries, maxRows, debug, schema,
                  previousQuery, safetyFeedback, generatedQuery, safeQuery,
                  safetyResult, executionResult >>

\* a rejected extractSchema() that no catch block handles: the promise of
\* the run is rejected
ExtractSchemaThrows_propagated ==
  /\ pc = "extractSchema"
  /\ calls' = Append(calls, [ port |-> "extractSchema", ok |-> FALSE ])
  /\ pc' = "rejected"
  /\ UNCHANGED << toolVars, moduleVars, llmVars, pairVars, clientVars >>
  /\ UNCHANGED << question, maxRetries, maxRows, debug, schema, attempt,
                  previousQuery, safetyFeedback, generatedQuery, safeQuery,
                  safetyResult, executionResult, trace, result >>

\* await extractSchema() rejects: the catch block
ExtractSchemaThrows ==
  /\ pc = "extractSchema"
  /\ \E message \in ErrorMessages :
       /\ calls' = Append(calls, [ port |-> "extractSchema", ok |-> FALSE ])
       /\ Return(UnexpectedResult(message, Append(trace, ErrorEntry(message))),
                 Append(trace, ErrorEntry(message)))
  /\ UNCHANGED << toolVars, moduleVars, llmVars, pairVars, clientVars >>
  /\ UNCHANGED << question, maxRetries, maxRows, debug, schema, attempt,
                  previousQuery, safetyFeedback, generatedQuery, safeQuery,
                  safetyResult, executionResult >>

\* lib/nodes/llmNodes.js, generateQuery: if (previousAttempt && feedback),
\* where null and the empty string are falsy
HasCorrection(previousAttempt, feedback) ==
  /\ ~Falsy(previousAttempt)
  /\ feedback # null
  /\ feedback # Val("")

\* lib/nodes/llmNodes.js, generateQuery: the prompt sent to the model, by
\* its variable parts: the schema context, the question and, when it is
\* appended, the correction context with the previous attempt and the
\* feedback
Prompt(q, sch, previousAttempt, feedback) ==
  [ schemaContext |-> sch,
    question |-> q,
    correction |->
      IF HasCorrection(previousAttempt, feedback)
        THEN Val([ previousAttempt |-> Get(previousAttempt),
                   feedback |-> Get(feedback) ])
        ELSE null ]

\* this iteration's call of generateQuery: its arguments, the prompt it
\* sent to the model and the query it resolved with
GenerateCall(ok, query) ==
  [ port |-> "generateQuery",
    question |-> question,
    schema |-> schema,
    previousAttempt |-> previousQuery,
    feedback |-> safetyFeedback,
    prompt |-> Prompt(question, schema, previousQuery, safetyFeedback),
    ok |-> ok,
    query |-> query ]

\* a generated query that is executed without the safety check
GenerateQueryOk_unchecked ==
  /\ pc = "generateQuery"
  /\ \E text \in RawResponses :
       LET query == cleanSQL(trim(text))
       IN /\ generatedQuery' = Val(query)
          /\ safeQuery' = Val(query)
          /\ trace' = Append(trace, [ step |-> "query_generation",
                                      attempt |-> attempt,
                                      success |-> TRUE,
                                      query |-> query ])
          /\ calls' = Append(calls, GenerateCall(TRUE, Val(query)))
  /\ pc' = "executionNode"
  /\ UNCHANGED << toolVars, moduleVars, llmVars, pairVars, clientVars >>
  /\ UNCHANGED << question, maxRetries, maxRows, debug, schema, attempt,
                  previousQuery, safetyFeedback, safetyResult,
                  executionResult, result >>

\* await generateQuery(...) resolves with success: true
GenerateQueryOk ==
  /\ pc = "generateQuery"
  /\ \E text \in RawResponses :
       LET query == cleanSQL(trim(text))
       IN /\ generatedQuery' = Val(query)
          /\ trace' = Append(trace, [ step |-> "query_generation",
                                      attempt |-> attempt,
                                      success |-> TRUE,
                                      query |-> query ])
          /\ calls' = Append(calls, GenerateCall(TRUE, Val(query)))
  /\ pc' = "safetyCheckNode"
  /\ UNCHANGED << toolVars, moduleVars, llmVars, pairVars, clientVars >>
  /\ UNCHANGED << question, maxRetries, maxRows, debug, schema, attempt,
                  previousQuery, safetyFeedback, safeQuery, safetyResult,
                  executionResult, result >>

\* a failed generation that is retried like a rejected query
GenerateQueryFails_retried ==
  /\ pc = "generateQuery"
  /\ \E message \in ErrorMessages :
       LoopTop(attempt, FALSE, safeQuery, safetyResult,
               Append(trace, [ step |-> "query_generation",
                               attempt |-> attempt,
                               success |-> FALSE,
                               error |-> message ]))
  /\ calls' = Append(calls, GenerateCall(FALSE, undefined))
  /\ UNCHANGED << toolVars, moduleVars, llmVars, pairVars, clientVars >>
  /\ UNCHANGED << question, maxRetries, maxRows, debug, schema,
                  previousQuery, safetyFeedback, generatedQuery, safeQuery,
                  safetyResult, executionResult >>

\* await generateQuery(...) resolves with success: false
GenerateQueryFails ==
  /\ pc = "generateQuery"
  /\ \E message \in ErrorMessages :
       LET tr == Append(trace, [ step |-> "query_generation",
                                 attempt |-> attempt,
                                 success |-> FALSE,
                                 error |-> message ])
       IN Return(GenerationFailedResult(message, tr), tr)
  /\ calls' = Append(calls, GenerateCall(FALSE, undefined))
  /\ UNCHANGED << toolVars, moduleVars, llmVars, pairVars, clientVars >>
  /\ UNCHANGED << question, maxRetries, maxRows, debug, schema, attempt,
                  previousQuery, safetyFeedback, generatedQuery, safeQuery,
                  safetyResult, executionResult >>

\* lib/nodes/executionNodes.js: safetyCheckNode
safetyCheckNode(sqlQuery) ==
  LET r == checkQuerySafety(sqlQuery)
  IN [ safe |-> r.safe, issues |-> r.issues, warnings |-> r.warnings,
       query |-> sqlQuery ]

\* what follows await safetyCheckNode(generatedQuery): the trace entry and
\* the branch on the verdict
SafetyBranch(verdict) ==
  LET query == Get(generatedQuery)
      tr == Append(trace, [ step |-> "safety_check",
                            attempt |-> attempt,
                            safe |-> verdict.safe,
                            issues |-> verdict.issues,
                            warnings |-> verdict.warnings ])
  IN /\ safetyResult' = Val(verdict)
     /\ calls' = Append(calls, [ port |-> "safetyCheckNode",
                                 query |-> query,
                                 verdict |-> verdict ])
     /\ IF IsSafe(verdict)
          THEN /\ safeQuery' = Val(query)
               /\ UNCHANGED << previousQuery, safetyFeedback >>
               /\ LoopTop(attempt, TRUE, Val(query), Val(verdict), tr)
          ELSE /\ previousQuery' = Val(query)
               /\ safetyFeedback' = Val(Feedback(verdict.issues))
               /\ UNCHANGED safeQuery
               /\ LoopTop(attempt, FALSE, safeQuery, Val(verdict), tr)

\* await safetyCheckNode(generatedQuery) on the module as loaded
SafetyCheck ==
  /\ pc = "safetyCheckNode"
  /\ \E verdict \in { safetyCheckNode(Get(generatedQuery)) } :
       SafetyBranch(verdict)
  /\ UNCHANGED << toolVars, moduleVars, llmVars, pairVars, clientVars >>
  /\ UNCHANGED << question, maxRetries, maxRows, debug, schema,
                  generatedQuery, executionResult >>

\* lib/nodes/executionNodes.js: executionNode over an executeQuery that
\* resolved with success: true
ExecutionSucceeded(db, time) ==
  [ success |-> TRUE,
    data |-> Val([ rows |-> db.rows,
                   rowCount |-> db.rowCount,
                   executionTime |-> time,
                   fields |-> IF db.fields = undefined THEN undefined
                              ELSE Val([ i \in DOMAIN Get(db.fields) |->
                                           [ name |-> Get(db.fields)[i].name,
                                             dataType |-> Get(db.fields)[i].dataTypeID ] ]) ]),
    error |-> null ]

\* executionNode over an executeQuery whose pool.query threw
ExecutionFailed(message) ==
  [ success |-> FALSE,
    data |-> null,
    error |-> Val([ message |-> message, code |-> undefined, detail |-> undefined ]) ]

\* the call of executionNode: its arguments, the text executeQuerySafe
\* submits to pool.query, and what the call resolved to
ExecutionCall(r) ==
  [ port |-> "executionNode",
    query |-> Get(safeQuery),
    maxRows |-> maxRows,
    submitted |-> LimitedQuery(Get(safeQuery), maxRows),
    ok |-> r.success,
    returned |-> r ]

\* a successful execution that leaves no entry in the trace
ExecuteOk_noEntry ==
  /\ pc = "executionNode"
  /\ \E db \in DbResults, time \in ExecutionTimes :
       LET r == ExecutionSucceeded(db, time)
       IN /\ executionResult' = Val(r)
          /\ calls' = Append(calls, ExecutionCall(r))
  /\ pc' = "summarizeResults"
  /\ UNCHANGED << toolVars, moduleVars, llmVars, pairVars, clientVars >>
  /\ UNCHANGED << question, maxRetries, maxRows, debug, schema, attempt,
                  previousQuery, safetyFeedback, generatedQuery, safeQuery,
                  safetyResult, trace, result >>

\* await executionNode(safeQuery, maxRows) resolves with success: true
ExecuteOk ==
  /\ pc = "executionNode"
  /\ \E db \in DbResults, time \in ExecutionTimes :
       LET r == ExecutionSucceeded(db, time)
       IN /\ executionResult' = Val(r)
          /\ trace' = Append(trace, [ step |-> "execution",
                                      success |-> TRUE,
                                      rowCount |-> Val(Get(r.data).rowCount),
                                      executionTime |-> Val(Get(r.data).executionTime) ])
          /\ calls' = Append(calls, ExecutionCall(r))
  /\ pc' = "summarizeResults"
  /\ UNCHANGED << toolVars, moduleVars, llmVars, pairVars, clientVars >>
  /\ UNCHANGED << question, maxRetries, maxRows, debug, schema, attempt,
                  previousQuery, safetyFeedback, generatedQuery, safeQuery,
                  safetyResult, result >>

\* await executionNode(safeQuery, maxRows) resolves with success: false
ExecuteFails ==
  /\ pc = "executionNode"
  /\ \E message \in ErrorMessages :
       LET r == ExecutionFailed(message)
           tr == Append(trace, [ step |-> "execution",
                                 success |-> FALSE,
                                 rowCount |-> undefined,
                                 executionTime |-> undefined ])
       IN /\ executionResult' = Val(r)
          /\ Return(ExecutionFailedResult(r, Get(safeQuery), tr), tr)
          /\ calls' = Append(calls, ExecutionCall(r))
  /\ UNCHANGED << toolVars, moduleVars, llmVars, pairVars, clientVars >>
  /\ UNCHANGED << question, maxRetries, maxRows, debug, schema, attempt,
                  previousQuery, safetyFeedback, generatedQuery, safeQuery,
                  safetyResult >>

SummarizeCall(ok) ==
  [ port |-> "summarizeResults",
    question |-> question,
    queryResults |-> Get(executionResult).data,
    sqlQuery |-> Get(safeQuery),
    ok |-> ok ]

\* await summarizeResults(...) resolves with success: true
SummarizeOk ==
  /\ pc = "summarizeResults"
  /\ \E summary \in Summaries :
       LET tr == Append(trace, [ step |-> "summarization", success |-> TRUE ])
       IN Return(SuccessResult(summary, Get(safeQuery), Get(executionResult),
                               attempt, Get(safetyResult), debug, tr), tr)
  /\ calls' = Append(calls, SummarizeCall(TRUE))
  /\ UNCHANGED << toolVars, moduleVars, llmVars, pairVars, clientVars >>
  /\ UNCHANGED << question, maxRetries, maxRows, debug, schema, attempt,
                  previousQuery, safetyFeedback, generatedQuery, safeQuery,
                  safetyResult, executionResult >>

\* await summarizeResults(...) resolves with success: false
SummarizeFails ==
  /\ pc = "summarizeResults"
  /\ \E message \in ErrorMessages :
       LET tr == Append(trace, [ step |-> "summarization", success |-> FALSE ])
       IN Return(SummaryFailedResult(message, Get(safeQuery),
                                     Get(executionResult), tr), tr)
  /\ calls' = Append(calls, SummarizeCall(FALSE))
  /\ UNCHANGED << toolVars, moduleVars, llmVars, pairVars, clientVars >>
  /\ UNCHANGED << question, maxRetries, maxRows, debug, schema, attempt,
                  previousQuery, safetyFeedback, generatedQuery, safeQuery,
                  safetyResult, executionResult >>

Next ==
  \/ ExtractSchemaOk
  \/ ExtractSchemaThrows
  \/ GenerateQueryOk
  \/ GenerateQueryFails
  \/ SafetyCheck
  \/ ExecuteOk
  \/ ExecuteFails
  \/ SummarizeOk
  \/ SummarizeFails

Spec == Init /\ [][Next]_vars

\* the smallest retry budget a run is started with
LowestBudget == -1

\* any integer retry budget: negative, zero, positive
AnyBudgets == LowestBudget..MaxRetriesBound

\* maxRows = 100, the default of the options
DefaultMaxRows == << "1", "0", "0" >>

\* a run started on one question with any integer budget and the other
\* options left at their defaults
InitAnyBudget ==
  /\ question = "How many users?"
  /\ maxRetries \in AnyBudgets
  /\ maxRows = DefaultMaxRows
  /\ debug = FALSE
  /\ pc = "extractSchema"
  /\ schema = undefined
  /\ attempt = 0
  /\ previousQuery = null
  /\ safetyFeedback = null
  /\ generatedQuery = undefined
  /\ safeQuery = null
  /\ safetyResult = null
  /\ executionResult = undefined
  /\ trace = << >>
  /\ result = undefined
  /\ calls = << >>
  /\ ToolsIdle
  /\ ModuleLoaded
  /\ ModelIdle
  /\ OneRun
  /\ NoClient

\* runs with any budget in which every collaborator call that is awaited
\* eventually resolves or rejects
SpecAnyBudget == InitAnyBudget /\ [][Next]_vars /\ WF_vars(Next)

\* ------------------------------------------------------------------------
\* lib/nodes/llmNodes.js: safeGenerate under generateQuery and
\* summarizeResults
\* ------------------------------------------------------------------------

\* retries = 2, the default that both callers leave in place
DefaultRetries == 2

\* a helper that calls once more when no retry is left
MayRetry_offByOne(retries) == retries >= 0

\* if (retries > 0) in the catch of safeGenerate
MayRetry(retries) == retries > 0

\* the calls of model.generateContent made so far by the safeGenerate of
\* the port call in progress
HelperCalls ==
  IF modelLog # << >> /\ modelLog[1].call = Len(calls) + 1
    THEN modelLog
    ELSE << >>

\* the last call of model.generateContent made by the helper
LastModelCall == modelLog[Len(modelLog)]

\* safeGenerate returned the response of its last call
HelperResolved == HelperCalls # << >> /\ LastModelCall.ok

\* safeGenerate threw the error of its last call: the call failed in a
\* frame with no retry left
HelperThrew ==
  /\ HelperCalls # << >>
  /\ ~LastModelCall.ok
  /\ ~MayRetry(LastModelCall.retries)

\* what model.generateContent can do: resolve with a response text or
\* reject with an error
ModelOutcomes ==
  [ ok : { TRUE },
    text : IF pc = "generateQuery" THEN RawResponses ELSE Summaries ]
  \cup [ ok : { FALSE }, message : ErrorMessages ]

\* one frame of safeGenerate: await model.generateContent(prompt), in
\* the first frame with retries = 2 and after a failure, once the 300 ms
\* have passed, in a new frame with retries - 1
ModelCall ==
  /\ pc \in { "generateQuery", "summarizeResults" }
  /\ ~HelperResolved
  /\ ~HelperThrew
  /\ \E outcome \in ModelOutcomes :
       modelLog' =
         Append(HelperCalls,
                [ call |-> Len(calls) + 1,
                  retries |-> IF HelperCalls = << >>
                                THEN DefaultRetries
                                ELSE LastModelCall.retries - 1 ] @@ outcome)
  /\ modelCalls' = IF pc = "generateQuery" THEN modelCalls + 1 ELSE modelCalls
  /\ UNCHANGED << agentVars, toolVars, moduleVars, pairVars, clientVars >>

\* generateQuery after safeGenerate returned: result.response.text()
\* trimmed and cleaned, success: true
GenerateQueryResolves ==
  /\ pc = "generateQuery"
  /\ HelperResolved
  /\ GenerateQueryOk
  /\ generatedQuery' = Val(cleanSQL(trim(LastModelCall.text)))

\* generateQuery after safeGenerate threw: the catch returns success:
\* false with error.message
GenerateQueryCatches ==
  /\ pc = "generateQuery"
  /\ HelperThrew
  /\ GenerateQueryFails
  /\ Get(result').details = LastModelCall.message

\* summarizeResults after safeGenerate returned
SummarizeResolves ==
  /\ pc = "summarizeResults"
  /\ HelperResolved
  /\ SummarizeOk
  /\ Get(result').answer = LastModelCall.text

\* summarizeResults after safeGenerate threw
SummarizeCatches ==
  /\ pc = "summarizeResults"
  /\ HelperThrew
  /\ SummarizeFails
  /\ Get(result').details = LastModelCall.message

\* a run on one question with the default options and a budget of one
\* attempt or more
InitModel ==
  /\ Init
  /\ question = "How many users?"
  /\ maxRows = DefaultMaxRows
  /\ debug = FALSE

NextModel ==
  \/ ExtractSchemaOk
  \/ ExtractSchemaThrows
  \/ ModelCall
  \/ GenerateQueryResolves
  \/ GenerateQueryCatches
  \/ SafetyCheck
  \/ ExecuteOk
  \/ ExecuteFails
  \/ SummarizeResolves
  \/ SummarizeCatches

\* the runs with the calls of the model spelled out
SpecModel == InitModel /\ [][NextModel]_vars

\* ------------------------------------------------------------------------
\* server.js: app.post("/ask")
\* ------------------------------------------------------------------------

\* result.name, undefined when the result has no such property
Property(r, name) == IF name \in DOMAIN r THEN Val(r[name]) ELSE undefined

\* the status and the body the handler responds with for the result that
\* sqlQueryAgent resolved to
AskResponse(r) ==
  IF r.success
    THEN [ status |-> 200,
           body |-> [ success |-> Val(TRUE),
                      answer |-> Property(r, "answer"),
                      query |-> Property(r, "query"),
                      data |-> Property(r, "data"),
                      metadata |-> Property(r, "metadata"),
                      trace |-> r.trace ] ]
    ELSE [ status |-> 400,
           body |-> [ success |-> Val(FALSE),
                      error |-> Property(r, "error"),
                      details |-> Property(r, "details"),
                      trace |-> r.trace ] ]

\* res.json(body) delivers the property: JSON.stringify leaves out the
\* properties whose value is undefined
Delivers(body, name) == name \in DOMAIN body /\ body[name] # undefined

\* ------------------------------------------------------------------------
\* The tools called directly: checkQuerySafety and executeQuerySafe on the
\* texts a caller builds
\* ------------------------------------------------------------------------

\* how many fragments the caller adds to a text
MaxEdits == 2

\* the texts a caller starts from
textSelectStarUsers == << "S","E","L","E","C","T"," ","*"," ","F","R","O","M"," ","u","s","e","r","s" >>

textLowerSelect == << "s","e","l","e","c","t"," ","i","d"," ","f","r","o","m"," ","t" >>

textPaddedSelect == << " "," ","S","E","L","E","C","T"," ","1" >>

textDeleteUsers == << "D","E","L","E","T","E"," ","F","R","O","M"," ","u","s","e","r","s" >>

textEmpty == << >>

StartTexts ==
  { textSelectStarUsers, textLowerSelect, textPaddedSelect, textDeleteUsers, textEmpty }

\* the fragments a caller adds at the end of its text
fragSpace == << " " >>

fragSemicolon == << ";" >>

fragDrop == << "D","R","O","P" >>

fragDelete == << "d","e","l","e","t","e" >>

fragUpdate == << "U","p","d","a","t","e" >>

fragInsert == << "I","N","S","E","R","T" >>

fragTruncate == << "t","r","u","n","c","a","t","e" >>

fragAlter == << "A","L","T","E","R" >>

fragCreate == << "C","R","E","A","T","E" >>

fragGrant == << "g","r","a","n","t" >>

fragRevoke == << "R","E","V","O","K","E" >>

fragExec == << "E","X","E","C" >>

fragExecute == << "e","x","e","c","u","t","e" >>

fragLineComment == << "-","-" >>

fragBlockComment == << "/","*" >>

fragXp == << "x","p","_" >>

fragSp == << "S","P","_" >>

fragUpdatedAt == << "u","p","d","a","t","e","d","_","a","t" >>

fragLimit == << " ","L","I","M","I","T"," ","5" >>

fragFromLimits == << " ","F","R","O","M"," ","l","i","m","i","t","s" >>

Fragments ==
  { fragSpace, fragSemicolon, fragDrop, fragDelete,
    fragUpdate, fragInsert, fragTruncate, fragAlter,
    fragCreate, fragGrant, fragRevoke, fragExec,
    fragExecute, fragLineComment, fragBlockComment, fragXp,
    fragSp, fragUpdatedAt, fragLimit, fragFromLimits }

\* no run of the agent is in progress
AgentIdle ==
  /\ question = "How many users?"
  /\ maxRetries = MaxRetriesBound
  /\ maxRows = << "1", "0", "0" >>
  /\ debug = FALSE
  /\ pc = "idle"
  /\ schema = undefined
  /\ attempt = 0
  /\ previousQuery = null
  /\ safetyFeedback = null
  /\ generatedQuery = undefined
  /\ safeQuery = null
  /\ safetyResult = null
  /\ executionResult = undefined
  /\ trace = << >>
  /\ result = undefined
  /\ calls = << >>

InitTools ==
  /\ AgentIdle
  /\ sqlText \in StartTexts
  /\ edits = 0
  /\ checkResult = null
  /\ submitted = null
  /\ ModuleLoaded
  /\ ModelIdle
  /\ OneRun
  /\ NoClient

\* the caller adds a fragment to its text
EditText ==
  /\ edits < MaxEdits
  /\ \E fragment \in Fragments : sqlText' = sqlText \o fragment
  /\ edits' = edits + 1
  /\ checkResult' = null
  /\ submitted' = null
  /\ UNCHANGED << agentVars, moduleVars, llmVars, pairVars, clientVars >>

\* checkQuerySafety(sqlText)
CallCheckQuerySafety ==
  /\ checkResult = null
  /\ checkResult' = Val(checkQuerySafety(sqlText))
  /\ UNCHANGED << sqlText, edits, submitted >>
  /\ UNCHANGED << agentVars, moduleVars, llmVars, pairVars, clientVars >>

\* executeQuerySafe(sqlText, maxRows) on a text that checkQuerySafety
\* accepted, as sqlQueryAgent has executionNode call it after the branch
\* on the verdict: the text it passes to executeQuery
CallExecuteQuerySafe ==
  /\ checkResult # null
  /\ IsSafe(Get(checkResult))
  /\ submitted = null
  /\ \E rows \in MaxRowsValues :
       submitted' = Val([ maxRows |-> rows, text |-> LimitedQuery(sqlText, rows) ])
  /\ UNCHANGED << sqlText, edits, checkResult >>
  /\ UNCHANGED << agentVars, moduleVars, llmVars, pairVars, clientVars >>

NextTools ==
  \/ EditText
  \/ CallCheckQuerySafety
  \/ CallExecuteQuerySafe

SpecTools == InitTools /\ [][NextTools]_vars

\* ------------------------------------------------------------------------
\* The RegExp objects of safetyChecker.js and repeated calls of
\* checkQuerySafety
\* ------------------------------------------------------------------------

\* how many calls of checkQuerySafety are made on the loaded module
MaxCalls == 3

\* patterns compiled with the g flag
PatternFlags_global == << { "g", "i" }, { "g" }, { "g" }, { "g", "i" }, { "g", "i" } >>

\* the flags of the five literals of DANGEROUS_PATTERNS
PatternFlags == << { "i" }, { }, { }, { "i" }, { "i" } >>

\* the characters the patterns /--/, /\/\*/, /xp_/i and /sp_/i match, those
\* of the patterns with the i flag in upper case
PatternLiterals ==
  << << >>, << "-", "-" >>, << "/", "*" >>, << "X", "P", "_" >>, << "S", "P", "_" >> >>

\* the text as pattern k compares it: letter case is folded by the i flag
Subject(k, text) == IF "i" \in PatternFlags[k] THEN toUpperCase(text) ELSE text

\* the index (counted from 0) at which the match of pattern k that starts
\* at position i (counted from 1) of the text ends, -1 when the pattern
\* does not match there
MatchEndAt(k, text, i) ==
  LET subject == Subject(k, text)
  IN IF k = 1
       THEN IF text[i] # ";" THEN -1
            ELSE LET j == CHOOSE n \in (i + 1)..(Len(text) + 1) :
                            /\ \A m \in (i + 1)..(n - 1) : IsSpace(text[m])
                            /\ n = Len(text) + 1 \/ ~IsSpace(text[n])
                     found == { kw \in StackedKeywords : OccursAt(subject, kw, j) }
                 IN IF found = { } THEN -1
                    ELSE j - 1 + Len(CHOOSE kw \in found : TRUE)
       ELSE IF OccursAt(subject, PatternLiterals[k], i)
              THEN i - 1 + Len(PatternLiterals[k])
              ELSE -1

\* the end of the first match of pattern k that starts at index from
\* (counted from 0) or later, -1 when there is none
FirstMatchEnd(k, text, from) ==
  LET starts == { i \in (from + 1)..Len(text) : MatchEndAt(k, text, i) # -1 }
  IN IF starts = { } THEN -1
     ELSE MatchEndAt(k, text, CHOOSE i \in starts : \A other \in starts : i <= other)

\* RegExp.prototype.test of pattern k whose lastIndex is li: a pattern with
\* the g flag searches from lastIndex on and leaves the end of its match
\* (0 after a failure) in lastIndex; a pattern without it searches from the
\* start and leaves lastIndex alone
RegExpTest(k, text, li) ==
  LET global == "g" \in PatternFlags[k]
      end == FirstMatchEnd(k, text, IF global THEN li ELSE 0)
  IN [ matched |-> end # -1,
       lastIndex |-> IF ~global THEN li ELSE IF end # -1 THEN end ELSE 0 ]

\* checkQuerySafety(sqlQuery) on the module whose patterns have lastIndex
\* li: what it returns and the lastIndex it leaves.  The RegExp of a
\* destructive keyword and the literal /;/g are created by the call itself.
checkQuerySafetyAt(sqlQuery, li) ==
  LET tests == [ k \in 1..5 |-> RegExpTest(k, sqlQuery, li[k]) ]
      ps == DANGEROUS_PATTERNS(sqlQuery)
  IN [ result |->
         [ safe |->
             /\ startsWith(toUpperCase(trim(sqlQuery)), kwSELECT)
             /\ \A i \in DOMAIN DESTRUCTIVE_KEYWORDS :
                  ~MatchesKeyword(sqlQuery, DESTRUCTIVE_KEYWORDS[i])
             /\ \A k \in 1..5 : ~tests[k].matched
             /\ ~(semicolonCount(sqlQuery) > 1)
             /\ ~(semicolonCount(sqlQuery) = 1 /\ ~endsWith(trim(sqlQuery), << ";" >>)),
           issues |->
             StatementTypeIssues(sqlQuery) \o KeywordIssues(sqlQuery)
               \o Select([ k \in 1..5 |-> "Dangerous pattern detected: " \o ps[k].text ],
                         [ k \in 1..5 |-> tests[k].matched ])
               \o SemicolonIssues(sqlQuery),
           warnings |-> Warnings(sqlQuery) ],
       lastIndex |-> [ k \in 1..5 |-> tests[k].lastIndex ] ]

textBlockComment == kwSELECT \o << " ","1"," ","/","*"," ","x" >>

textProcedures ==
  << "s","e","l","e","c","t"," ","x","p","_","a",","," ","S","p","_","b" >>

\* the texts checkQuerySafety is called on, again and again
RepeatTexts ==
  { respComment, respStacked, textBlockComment, textProcedures,
    textSelectStarUsers, textDeleteUsers }

InitRepeat ==
  /\ AgentIdle
  /\ ToolsIdle
  /\ ModuleLoaded
  /\ ModelIdle
  /\ OneRun
  /\ NoClient

\* one more call of checkQuerySafety on the loaded module
CheckOnModule ==
  /\ Len(callLog) < MaxCalls
  /\ \E text \in RepeatTexts :
       LET r == checkQuerySafetyAt(text, lastIndex)
       IN /\ callLog' = Append(callLog, [ text |-> text, result |-> r.result ])
          /\ lastIndex' = r.lastIndex
  /\ UNCHANGED << agentVars, toolVars, llmVars, pairVars, clientVars >>

NextRepeat == CheckOnModule

SpecRepeat == InitRepeat /\ [][NextRepeat]_vars

\* ------------------------------------------------------------------------
\* two runs of sqlQueryAgent in one process (two /ask requests), interleaved
\* at their awaits, on the one loaded module safetyChecker.js
\* ------------------------------------------------------------------------

\* the largest retry budget of the first run
PairRetries == 2

\* the retry budget of the second run: one retry
OtherBudget == 2

\* the locals of the run that is executing
Locals ==
  [ question |-> question, maxRetries |-> maxRetries, maxRows |-> maxRows,
    debug |-> debug, pc |-> pc, schema |-> schema, attempt |-> attempt,
    previousQuery |-> previousQuery, safetyFeedback |-> safetyFeedback,
    generatedQuery |-> generatedQuery, safeQuery |-> safeQuery,
    safetyResult |-> safetyResult, executionResult |-> executionResult,
    trace |-> trace, result |-> result, calls |-> calls ]

\* the locals of a call of sqlQueryAgent(q, { maxRetries: budget }) that
\* has reached its first await
StartedLocals(q, budget) ==
  [ question |-> q, maxRetries |-> budget, maxRows |-> DefaultMaxRows,
    debug |-> FALSE, pc |-> "extractSchema", schema |-> undefined,
    attempt |-> 0, previousQuery |-> null, safetyFeedback |-> null,
    generatedQuery |-> undefined, safeQuery |-> null, safetyResult |-> null,
    executionResult |-> undefined, trace |-> << >>, result |-> undefined,
    calls |-> << >> ]

\* two requests, each with its own question and budget, the default
\* maxRows and no debug
InitPair ==
  /\ question = "How many users?"
  /\ maxRetries \in 1..PairRetries
  /\ maxRows = DefaultMaxRows
  /\ debug = FALSE
  /\ pc = "extractSchema"
  /\ schema = undefined
  /\ attempt = 0
  /\ previousQuery = null
  /\ safetyFeedback = null
  /\ generatedQuery = undefined
  /\ safeQuery = null
  /\ safetyResult = null
  /\ executionResult = undefined
  /\ trace = << >>
  /\ result = undefined
  /\ calls = << >>
  /\ parked = Val(StartedLocals("Show me all users", OtherBudget))
  /\ active = 1
  /\ ToolsIdle
  /\ ModuleLoaded
  /\ ModelIdle
  /\ NoClient

\* the event loop resumes the other run: the run that was executing is
\* suspended at its await with its locals as they are
Switch ==
  /\ parked # null
  /\ parked' = Val(Locals)
  /\ active' = 3 - active
  /\ question' = Get(parked).question
  /\ maxRetries' = Get(parked).maxRetries
  /\ maxRows' = Get(parked).maxRows
  /\ debug' = Get(parked).debug
  /\ pc' = Get(parked).pc
  /\ schema' = Get(parked).schema
  /\ attempt' = Get(parked).attempt
  /\ previousQuery' = Get(parked).previousQuery
  /\ safetyFeedback' = Get(parked).safetyFeedback
  /\ generatedQuery' = Get(parked).generatedQuery
  /\ safeQuery' = Get(parked).safeQuery
  /\ safetyResult' = Get(parked).safetyResult
  /\ executionResult' = Get(parked).executionResult
  /\ trace' = Get(parked).trace
  /\ result' = Get(parked).result
  /\ calls' = Get(parked).calls
  /\ UNCHANGED << toolVars, moduleVars, llmVars, clientVars >>

\* await safetyCheckNode(generatedQuery) on the module both runs share:
\* the patterns are tested from the lastIndex the earlier calls left
SafetyCheckOnModule ==
  /\ pc = "safetyCheckNode"
  /\ \E r \in { checkQuerySafetyAt(Get(generatedQuery), lastIndex) } :
       /\ SafetyBranch([ safe |-> r.result.safe,
                         issues |-> r.result.issues,
                         warnings |-> r.result.warnings,
                         query |-> Get(generatedQuery) ])
       /\ lastIndex' = r.lastIndex
  /\ UNCHANGED callLog
  /\ UNCHANGED << toolVars, llmVars, pairVars, clientVars >>
  /\ UNCHANGED << question, maxRetries, maxRows, debug, schema,
                  generatedQuery, executionResult >>

NextPair ==
  \/ Switch
  \/ ExtractSchemaOk
  \/ ExtractSchemaThrows
  \/ GenerateQueryOk
  \/ GenerateQueryFails
  \/ SafetyCheckOnModule
  \/ ExecuteOk
  \/ ExecuteFails
  \/ SummarizeOk
  \/ SummarizeFails

SpecPair == InitPair /\ [][NextPair]_vars

\* ------------------------------------------------------------------------
\* the web client: askQuestion, displaySuccess, displayError, hideAll
\* ------------------------------------------------------------------------

\* how many responses a session of the page displays
MaxResponses == 3

\* the bodies the /ask handler answers with when result.success is true
SuccessBodies ==
  [ success : { TRUE },
    answer : { "There are 3 users." },
    query : { "SELECT 1" },
    data : { [ rows |-> << >>, rowCount |-> 0, executionTime |-> "15ms" ] },
    metadata :
      [ attempts : { 1 },
        warnings : { << >>,
                     << "Using SELECT * - consider specifying columns" >>,
                     << "No LIMIT clause - query might return many rows" >> } ],
    trace : { undefined,
              Val(<< [ step |-> "schema_extraction", success |-> TRUE ] >>) } ]

\* the bodies the /ask handler answers with when result.success is false
FailureBodies ==
  [ success : { FALSE },
    error : { "Could not generate a safe query after multiple attempts" },
    details : { undefined, Val("fetch failed") },
    trace : { undefined,
              Val(<< [ step |-> "schema_extraction", success |-> TRUE ] >>),
              Val(<< [ step |-> "error", error |-> "fetch failed" ] >>) } ]

\* what the catch of askQuestion displays when fetch or response.json()
\* throws
NetworkErrorBody(message) ==
  [ success |-> FALSE, error |-> "Network Error", details |-> Val(message),
    trace |-> undefined ]

\* hideAll(): the class hidden is added to the four containers
hideAll(d) ==
  [ d EXCEPT !.responseCard.hidden = TRUE,
             !.errorCard.hidden = TRUE,
             !.debugSection.hidden = TRUE,
             !.errorDetails.hidden = TRUE ]

\* displaySuccess(data): a warnings block is created and appended to the
\* response card when the response has warnings
displaySuccess(d, data) ==
  LET h == hideAll(d)
      withTrace == data.trace # undefined /\ d.debugChecked
      withWarnings == data.metadata.warnings # << >>
  IN [ h EXCEPT
         !.responseCard.hidden = FALSE,
         !.answerText = [ formatAnswer |-> data.answer ],
         !.sqlQuery = data.query,
         !.dataTable = data.data.rows,
         !.rowCount = IF data.data.rows # << >> THEN Val(data.data.rowCount) ELSE undefined,
         !.executionTime = IF data.data.rows # << >> THEN data.data.executionTime ELSE "",
         !.debugSection.hidden = IF withTrace THEN FALSE ELSE TRUE,
         !.debugTrace = IF withTrace THEN data.trace ELSE h.debugTrace,
         !.responseCard.blocks =
           IF withWarnings
             THEN Append(h.responseCard.blocks, data.metadata.warnings)
             ELSE h.responseCard.blocks ]

\* displayError(data): a pre element with the trace is created and
\* appended to the error card when the response has a trace
displayError(d, data) ==
  LET h == hideAll(d)
  IN [ h EXCEPT
         !.errorCard.hidden = FALSE,
         !.errorText = IF data.error = "" THEN "An error occurred" ELSE data.error,
         !.errorDetails.hidden = IF data.details # undefined THEN FALSE ELSE TRUE,
         !.errorDetails.text = IF data.details # undefined
                                 THEN data.details ELSE h.errorDetails.text,
         !.errorCard.blocks =
           IF data.trace # undefined
             THEN Append(h.errorCard.blocks, Get(data.trace))
             ELSE h.errorCard.blocks ]

\* the page as loaded: the cards hold no block the script created; which
\* containers carry the class hidden is left open
InitClient ==
  /\ AgentIdle
  /\ ToolsIdle
  /\ ModuleLoaded
  /\ ModelIdle
  /\ OneRun
  /\ \E hid \in [ { "responseCard", "errorCard", "debugSection", "errorDetails" }
                     -> BOOLEAN ] :
       dom = Val([ responseCard |-> [ hidden |-> hid["responseCard"], blocks |-> << >> ],
                   errorCard |-> [ hidden |-> hid["errorCard"], blocks |-> << >> ],
                   debugSection |-> [ hidden |-> hid["debugSection"] ],
                   errorDetails |-> [ hidden |-> hid["errorDetails"], text |-> "" ],
                   debugTrace |-> undefined,
                   answerText |-> [ formatAnswer |-> "" ],
                   sqlQuery |-> "",
                   dataTable |-> << >>,
                   rowCount |-> undefined,
                   executionTime |-> "",
                   errorText |-> "",
                   spinnerHidden |-> TRUE,
                   buttonDisabled |-> FALSE,
                   debugChecked |-> FALSE ])
  /\ stats = Val([ totalQueries |-> 0, successfulQueries |-> 0 ])
  /\ pending = 0
  /\ shown = << >>

\* the user ticks or unticks the debug checkbox
ToggleDebug ==
  /\ dom' = Val([ Get(dom) EXCEPT !.debugChecked = ~Get(dom).debugChecked ])
  /\ UNCHANGED << stats, pending, shown >>
  /\ UNCHANGED << agentVars, toolVars, moduleVars, llmVars, pairVars >>

\* askQuestion() with a question, up to await fetch(...): the click on the
\* button, Ctrl+Enter in the input or an example button
AskStart ==
  /\ Len(shown) + pending < MaxResponses
  /\ dom' = Val([ hideAll(Get(dom)) EXCEPT !.spinnerHidden = FALSE,
                                          !.buttonDisabled = TRUE ])
  /\ pending' = pending + 1
  /\ UNCHANGED << stats, shown >>
  /\ UNCHANGED << agentVars, toolVars, moduleVars, llmVars, pairVars >>

\* the finally block of askQuestion
AskFinally(d) ==
  [ d EXCEPT !.spinnerHidden = TRUE, !.buttonDisabled = FALSE ]

\* askQuestion() after the response arrived with success: true
AskSucceeds ==
  /\ pending > 0
  /\ \E data \in SuccessBodies :
       /\ dom' = Val(AskFinally(displaySuccess(Get(dom), data)))
       /\ shown' = Append(shown, data)
  /\ stats' = Val([ totalQueries |-> Get(stats).totalQueries + 1,
                    successfulQueries |-> Get(stats).successfulQueries + 1 ])
  /\ pending' = pending - 1
  /\ UNCHANGED << agentVars, toolVars, moduleVars, llmVars, pairVars >>

\* askQuestion() after the response arrived with success: false
AskFails ==
  /\ pending > 0
  /\ \E data \in FailureBodies :
       /\ dom' = Val(AskFinally(displayError(Get(dom), data)))
       /\ shown' = Append(shown, data)
  /\ stats' = Val([ Get(stats) EXCEPT !.totalQueries = @ + 1 ])
  /\ pending' = pending - 1
  /\ UNCHANGED << agentVars, toolVars, moduleVars, llmVars, pairVars >>

\* askQuestion() when fetch or response.json() throws: the catch block
AskThrows ==
  /\ pending > 0
  /\ \E message \in ErrorMessages :
       /\ dom' = Val(AskFinally(displayError(Get(dom), NetworkErrorBody(message))))
       /\ shown' = Append(shown, NetworkErrorBody(message))
  /\ pending' = pending - 1
  /\ UNCHANGED stats
  /\ UNCHANGED << agentVars, toolVars, moduleVars, llmVars, pairVars >>

NextClient ==
  \/ ToggleDebug
  \/ AskStart
  \/ AskSucceeds
  \/ AskFails
  \/ AskThrows

SpecClient == InitClient /\ [][NextClient]_vars

\* ------------------------------------------------------------------------
\* Properties
\* ------------------------------------------------------------------------

IsGenerateCall(c) == c.port = "generateQuery"

IsCheckCall(c) == c.port = "safetyCheckNode"

IsExecutionCall(c) == c.port = "executionNode"

IsSummarizeCall(c) == c.port = "summarizeResults"

GenerateCalls == SelectSeq(calls, IsGenerateCall)

CheckCalls == SelectSeq(calls, IsCheckCall)

ExecutionCalls == SelectSeq(calls, IsExecutionCall)

SummarizeCalls == SelectSeq(calls, IsSummarizeCall)

Returned == pc = "returned"

\* the positions in the call log of the safety checks that found the query safe
SafeChecks ==
  { j \in DOMAIN calls : IsCheckCall(calls[j]) /\ calls[j].verdict.safe }

\* before position i of the call log, checkQuerySafety was computed on
\* query and returned safe = true
CheckedSafeBefore(query, i) ==
  \E j \in SafeChecks : j < i /\ calls[j].query = query

\* C1: the execution port is only ever called with a query text for which
\* checkQuerySafety was computed in the same run and returned safe = true,
\* be the call finished or still awaited.
C1_ExecutionOnlyOfCheckedSafeQuery ==
  /\ \A i \in DOMAIN calls :
       IsExecutionCall(calls[i]) =>
         /\ CheckedSafeBefore(calls[i].query, i)
         /\ checkQuerySafety(calls[i].query).safe
  /\ pc = "executionNode" =>
       /\ safeQuery # null
       /\ CheckedSafeBefore(Get(safeQuery), Len(calls) + 1)

\* execution was called after a refinement: an earlier attempt was rejected
C1_Witness ==
  \E i \in DOMAIN calls :
    /\ IsExecutionCall(calls[i])
    /\ \E j \in 1..(i - 1) : IsCheckCall(calls[j]) /\ ~calls[j].verdict.safe

\* the execution calls made with a query other than that of a safe attempt
ExecutionsOfOtherAttempts ==
  { i \in DOMAIN calls :
      IsExecutionCall(calls[i]) /\ ~CheckedSafeBefore(calls[i].query, i) }

\* C2 as stated: once a request has reached a terminal result, exactly one
\* attempt had a safe verdict and no execution call was made with another
\* attempt.
C2_ExactlyOneSafeAttempt ==
  Returned =>
    /\ Cardinality(SafeChecks) = 1
    /\ ExecutionsOfOtherAttempts = { }

\* C2 amended: at most one attempt of a request has a safe verdict, and it
\* is the last attempt; no execution call is made with another attempt;
\* once the request has reached a terminal result, the number of safe
\* attempts is 1 if the execution port was called and 0 if it was not.
C2_AtMostOneSafeAttempt ==
  /\ Cardinality(SafeChecks) <= 1
  /\ \A j \in SafeChecks : \A i \in DOMAIN calls : IsCheckCall(calls[i]) => i <= j
  /\ ExecutionsOfOtherAttempts = { }
  /\ Len(ExecutionCalls) <= 1
  /\ Returned =>
       Cardinality(SafeChecks) = (IF ExecutionCalls # << >> THEN 1 ELSE 0)

\* a request that ended after a safe attempt which was not the first, with
\* budget left
C2_Witness ==
  /\ Returned
  /\ Cardinality(SafeChecks) = 1
  /\ Len(CheckCalls) = 2
  /\ maxRetries = 3
  /\ ExecutionCalls # << >>

\* C3: the number of generateQuery calls of a run never exceeds maxRetries,
\* counting the call that is still awaited.
C3_GenerationCallsBounded ==
  /\ Len(GenerateCalls) + (IF pc = "generateQuery" THEN 1 ELSE 0) = attempt
  /\ attempt <= maxRetries

\* the whole budget was spent on unsafe queries
C3_Witness ==
  /\ Returned
  /\ maxRetries >= 2
  /\ Len(GenerateCalls) = maxRetries
  /\ \A i \in DOMAIN CheckCalls : ~CheckCalls[i].verdict.safe

\* the last safety check of the run
LastCheck == CheckCalls[Len(CheckCalls)]

\* C4: when the generator returned an unsafe query on each of the
\* maxRetries attempts, the run returns the refinement
\* failure with attempts = maxRetries and lastIssues = the issues of the
\* last attempt's verdict, and neither the execution port nor the
\* summarization port was called.
C4_ExhaustedAfterAllUnsafe ==
  ( /\ Returned
    /\ Len(CheckCalls) = maxRetries
    /\ \A i \in DOMAIN CheckCalls : ~CheckCalls[i].verdict.safe )
  => /\ Get(result).success = FALSE
     /\ Get(result).error = "Could not generate a safe query after multiple attempts"
     /\ Get(result).attempts = maxRetries
     /\ Get(result).lastIssues = LastCheck.verdict.issues
     /\ ExecutionCalls = << >>
     /\ SummarizeCalls = << >>

\* three attempts, all unsafe, the last with issues and warnings of its own
C4_Witness ==
  /\ Returned
  /\ maxRetries = 3
  /\ Len(CheckCalls) = 3
  /\ \A i \in DOMAIN CheckCalls : ~CheckCalls[i].verdict.safe
  /\ CheckCalls[3].verdict.issues # CheckCalls[2].verdict.issues
  /\ Len(CheckCalls[3].verdict.issues) >= 2

\* C5: when attempts 1..k-1 were unsafe, attempt k was safe and execution
\* and summarization succeeded, the result is success with
\* metadata.attempts = k and query = the k-th generated query; and every
\* generation call i > 1, finished or awaited, receives previousAttempt =
\* the SQL rejected at attempt i-1 and feedback = the issues of attempt
\* i-1's verdict joined with "; ".
C5_SuccessAtAttemptKWithFeedback ==
  /\ ( /\ Returned
       /\ SummarizeCalls # << >>
       /\ SummarizeCalls[1].ok )
     => LET k == Len(CheckCalls)
        IN /\ k >= 1 /\ k <= maxRetries
           /\ \A i \in 1..(k - 1) : ~CheckCalls[i].verdict.safe
           /\ CheckCalls[k].verdict.safe
           /\ Get(result).success = TRUE
           /\ Get(result).metadata.attempts = k
           /\ Get(result).query = Get(GenerateCalls[k].query)
           /\ Get(result).query = CheckCalls[k].query
  /\ \A i \in 2..Len(GenerateCalls) :
       /\ GenerateCalls[i].previousAttempt = Val(Get(GenerateCalls[i - 1].query))
       /\ GenerateCalls[i].previousAttempt = Val(CheckCalls[i - 1].query)
       /\ GenerateCalls[i].feedback =
            Val(join(CheckCalls[i - 1].verdict.issues, "; "))
  /\ (pc = "generateQuery" /\ attempt > 1) =>
       /\ previousQuery = Val(CheckCalls[attempt - 1].query)
       /\ safetyFeedback =
            Val(join(CheckCalls[attempt - 1].verdict.issues, "; "))

\* success at the third attempt, after two rejections with different
\* issues, the second with more than one issue
C5_Witness ==
  /\ Returned
  /\ Get(result).success
  /\ Len(CheckCalls) = 3
  /\ CheckCalls[1].verdict.issues # CheckCalls[2].verdict.issues
  /\ Len(CheckCalls[2].verdict.issues) >= 2
  /\ Get(result).metadata.attempts = 3

\* C6: a generateQuery call that reports failure ends the run at once with
\* "Failed to generate SQL query": it is the last call of the run,
\* whatever budget is left.
C6_GenerationFailureIsFatal ==
  \A i \in DOMAIN calls :
    (IsGenerateCall(calls[i]) /\ ~calls[i].ok) =>
      /\ i = Len(calls)
      /\ Returned
      /\ Get(result).success = FALSE
      /\ Get(result).error = "Failed to generate SQL query"

\* the first generation call failed with budget left
C6_Witness ==
  /\ Returned
  /\ maxRetries >= 2
  /\ Len(GenerateCalls) = 1
  /\ ~GenerateCalls[1].ok

\* C7: when extractSchema fails, the run ends in a failure result and no
\* generation, safety-check, execution or summarization call is made.
C7_SchemaFailureIsFatal ==
  \A i \in DOMAIN calls :
    (calls[i].port = "extractSchema" /\ ~calls[i].ok) =>
      /\ Len(calls) = 1
      /\ Returned
      /\ Get(result).success = FALSE

\* the schema fetch failed
C7_Witness ==
  /\ Returned
  /\ Get(result).success = FALSE
  /\ calls = << [ port |-> "extractSchema", ok |-> FALSE ] >>

\* C8: when the execution port reports failure, the run returns "Query
\* execution failed" with the query that the safety check approved, and
\* the summarization port is not called.
C8_ExecutionFailureKeepsQuery ==
  \A i \in DOMAIN calls :
    (IsExecutionCall(calls[i]) /\ ~calls[i].ok) =>
      /\ i = Len(calls)
      /\ Returned
      /\ Get(result).success = FALSE
      /\ Get(result).error = "Query execution failed"
      /\ Get(result).query = LastCheck.query
      /\ LastCheck.verdict.safe
      /\ SummarizeCalls = << >>

\* the execution of a query without LIMIT, accepted at a retry, failed
C8_Witness ==
  /\ Returned
  /\ ExecutionCalls # << >>
  /\ ~ExecutionCalls[1].ok
  /\ ExecutionCalls[1].submitted # ExecutionCalls[1].query
  /\ Len(CheckCalls) >= 2

\* C9: when the summarization port reports failure after a successful
\* execution, the run returns "Failed to generate summary" with the
\* accepted query and the rows and rowCount that the execution port
\* returned.
C9_SummaryFailureKeepsQueryAndData ==
  \A i \in DOMAIN calls :
    (IsSummarizeCall(calls[i]) /\ ~calls[i].ok) =>
      /\ i = Len(calls)
      /\ Returned
      /\ Get(result).success = FALSE
      /\ Get(result).error = "Failed to generate summary"
      /\ Get(result).query = LastCheck.query
      /\ LastCheck.verdict.safe
      /\ ExecutionCalls[1].ok
      /\ Get(result).data # null
      /\ Get(Get(result).data).rows = Get(ExecutionCalls[1].returned.data).rows
      /\ Get(Get(result).data).rowCount = Get(ExecutionCalls[1].returned.data).rowCount

\* the summary of a non-empty row set failed
C9_Witness ==
  /\ Returned
  /\ SummarizeCalls # << >>
  /\ ~SummarizeCalls[1].ok
  /\ Get(ExecutionCalls[1].returned.data).rowCount = 1

\* the kind of failure a returned run ended with, read off the last
\* collaborator call of the run ("none": no collaborator failed)
FailureKind ==
  LET last == calls[Len(calls)]
  IN IF calls = << >> THEN "none"
     ELSE IF last.port = "extractSchema" /\ ~last.ok THEN "schema"
     ELSE IF IsGenerateCall(last) /\ ~last.ok THEN "generation"
     ELSE IF IsCheckCall(last) /\ ~last.verdict.safe THEN "exhausted"
     ELSE IF IsExecutionCall(last) /\ ~last.ok THEN "execution"
     ELSE IF IsSummarizeCall(last) /\ ~last.ok THEN "summarization"
     ELSE "none"

\* the reason each explicit failure return of sqlQueryAgent reports
ExplicitReasons ==
  [ generation |-> "Failed to generate SQL query",
    exhausted |-> "Could not generate a safe query after multiple attempts",
    execution |-> "Query execution failed",
    summarization |-> "Failed to generate summary" ]

\* the reason the catch block reports for whatever was thrown
CatchAllReason == "Unexpected error in agent execution"

\* C10: each of the five failure kinds is reported with a reason of its
\* own in the error field: not the reason of another kind, and not the
\* generic reason of the catch block.
C10_EachFailureKindHasItsOwnReason ==
  (Returned /\ FailureKind # "none") =>
    /\ Get(result).success = FALSE
    /\ Get(result).error # CatchAllReason
    /\ \A k \in DOMAIN ExplicitReasons :
         k # FailureKind => Get(result).error # ExplicitReasons[k]

\* the trace entry that the run pushes for the collaborator call c, which
\* is the n-th call of its port: e is that entry
EntryRecords(e, c, n) ==
  IF c.port = "extractSchema"
    THEN IF c.ok THEN e = [ step |-> "schema_extraction", success |-> TRUE ]
                 ELSE e.step = "error" /\ e.error \in ErrorMessages
  ELSE IF IsGenerateCall(c)
    THEN /\ e.step = "query_generation"
         /\ e.attempt = n
         /\ e.success = c.ok
         /\ IF c.ok THEN e.query = Get(c.query) ELSE e.error \in ErrorMessages
  ELSE IF IsCheckCall(c)
    THEN /\ e.step = "safety_check"
         /\ e.attempt = n
         /\ e.safe = c.verdict.safe
         /\ e.issues = c.verdict.issues
         /\ e.warnings = c.verdict.warnings
  ELSE IF IsExecutionCall(c)
    THEN e.step = "execution" /\ e.success = c.ok
  ELSE e.step = "summarization" /\ e.success = c.ok

\* the number of calls of the port of calls[i] among calls[1..i]
CallNumber(i) ==
  Cardinality({ j \in 1..i : calls[j].port = calls[i].port })

\* C11: every failure result carries the trace, whatever the failure kind
\* and whatever the debug flag, and that trace has, in the order of the
\* run, one entry for each step performed, the step that failed included
\* (a rejected schema fetch is recorded by the entry of the catch block).
C11_FailureCarriesFullTrace ==
  (Returned /\ ~Get(result).success) =>
    /\ Get(result).trace # undefined
    /\ Get(Get(result).trace) = trace
    /\ Len(trace) = Len(calls)
    /\ \A i \in DOMAIN calls : EntryRecords(trace[i], calls[i], CallNumber(i))

\* without debug, a summary failure after a rejected attempt: seven steps
C11_Witness ==
  /\ Returned
  /\ ~debug
  /\ FailureKind = "summarization"
  /\ Len(CheckCalls) = 2
  /\ Len(Get(Get(result).trace)) = 7

\* C12 as stated: for every run with debug = false, success or failure,
\* the returned result has no trace.
C12_NoTraceWithoutDebug ==
  (Returned /\ ~debug) => Get(result).trace = undefined

\* C12 amended: a success result has the trace exactly when the debug
\* option is set; a failure result has the trace whatever the option is.
C12_SuccessTraceOnlyWithDebug ==
  Returned =>
    /\ Get(result).success =>
         Get(result).trace = (IF debug THEN Val(trace) ELSE undefined)
    /\ ~Get(result).success => Get(result).trace = Val(trace)

\* a success without debug, returned without the trace the run collected
C12_Witness ==
  /\ Returned
  /\ ~debug
  /\ Get(result).success
  /\ Get(result).trace = undefined
  /\ Len(trace) >= 5

\* C13: when the run that POST /ask started (maxRetries: 3) ends because
\* the budget is spent, the response body carries attempts and lastIssues
\* as the result has them; when it ends in an execution failure, the
\* response body carries the accepted query.
C13_ResponseCarriesFailureDetails ==
  (Returned /\ maxRetries = 3) =>
    LET r == Get(result)
        body == AskResponse(r).body
    IN /\ FailureKind = "exhausted" =>
            /\ Delivers(body, "attempts")
            /\ body.attempts = Val(r.attempts)
            /\ Delivers(body, "lastIssues")
            /\ body.lastIssues = Val(r.lastIssues)
       /\ FailureKind = "execution" =>
            /\ Delivers(body, "query")
            /\ body.query = Val(r.query)

\* the text has a LIMIT clause: the word LIMIT, in any letter case, stands
\* in it as a word of its own
HasLimitClause(text) == MatchesKeyword(text, kwLIMIT)

\* the text that checkQuerySafety accepted was handed to executeQuerySafe
AcceptedAndSubmitted ==
  /\ checkResult # null
  /\ Get(checkResult).safe
  /\ submitted # null

\* C14: for every accepted query and every maxRows, the text that
\* executeQuerySafe sends to the database has a row-limiting LIMIT clause,
\* its own or the appended ' LIMIT <maxRows>'.
C14_AcceptedQueryRunsRowLimited ==
  AcceptedAndSubmitted =>
    LET sent == Get(submitted).text
    IN /\ HasLimitClause(sent)
       /\ ~HasLimitClause(sqlText) =>
            sent = RemoveFinalSemicolon(trim(sqlText))
                     \o << " ", "L", "I", "M", "I", "T", " " >> \o Get(submitted).maxRows

\* checkQuerySafety was called on the text the caller holds
Checked == checkResult # null

\* the two texts have the same length and the same letters, letter case
\* set aside
SameLetters(a, b) ==
  /\ Len(a) = Len(b)
  /\ \A k \in 1..Len(a) : UpperChar(a[k]) = UpperChar(b[k])

\* after trimming, the text begins with SELECT in some letter case
BeginsWithSelect(text) ==
  LET t == trim(text)
  IN Len(t) >= 6 /\ SameLetters(SubSeq(t, 1, 6), kwSELECT)

\* C15: for every SQL text that, after trimming, does not begin with
\* SELECT in any letter case, checkQuerySafety returns safe = false and
\* its issues contain 'Query must be a SELECT statement'.
C15_NonSelectIsRejected ==
  (Checked /\ ~BeginsWithSelect(sqlText)) =>
    /\ Get(checkResult).safe = FALSE
    /\ \E i \in DOMAIN Get(checkResult).issues :
         Get(checkResult).issues[i] = "Query must be a SELECT statement"

\* a text that breaks the statement-type rule and no other
C15_Witness ==
  /\ Checked
  /\ edits = 2
  /\ ~BeginsWithSelect(sqlText)
  /\ Get(checkResult).issues = << "Query must be a SELECT statement" >>
  /\ Get(checkResult).safe = FALSE

\* the upper-case word occurs at position i of the text, given in upper
\* case, with no letter, digit or underscore right before it or right
\* after it
WholeWordAt(upper, word, i) ==
  /\ upper[i] = word[1]
  /\ SubSeq(upper, i, i + Len(word) - 1) = word
  /\ i = 1 \/ ~IsWordChar(upper[i - 1])
  /\ i + Len(word) > Len(upper) \/ ~IsWordChar(upper[i + Len(word)])

\* the text, given in upper case, has a whole-word occurrence of the word
HasWholeWord(upper, word) ==
  \E i \in 1..(Len(upper) - Len(word) + 1) : WholeWordAt(upper, word, i)

\* the names of the destructive keywords, in the order of the list
KeywordNames ==
  << "DROP", "DELETE", "UPDATE", "INSERT", "TRUNCATE", "ALTER", "CREATE",
     "GRANT", "REVOKE", "EXEC", "EXECUTE" >>

\* C16: for every SQL text and every keyword K of the list, if the text
\* contains a whole-word occurrence of K in any letter case then
\* checkQuerySafety returns safe = false and its issues contain
\* 'Destructive keyword detected: K'.
C16_DestructiveKeywordIsRejected ==
  Checked =>
    \A n \in DOMAIN DESTRUCTIVE_KEYWORDS :
      HasWholeWord(toUpperCase(sqlText), DESTRUCTIVE_KEYWORDS[n]) =>
        /\ Get(checkResult).safe = FALSE
        /\ \E i \in DOMAIN Get(checkResult).issues :
             Get(checkResult).issues[i] =
               "Destructive keyword detected: " \o KeywordNames[n]

\* a SELECT text whose only fault is the word delete in lower case
C16_Witness ==
  /\ Checked
  /\ BeginsWithSelect(sqlText)
  /\ ~includes(sqlText, kwDELETE)
  /\ Get(checkResult).issues = << "Destructive keyword detected: DELETE" >>
  /\ Get(checkResult).safe = FALSE

\* the positions of the semicolons of the text
SemicolonPositions(text) == { i \in 1..Len(text) : text[i] = ";" }

\* the last character of the trimmed text is a semicolon
SemicolonIsFinal(text) ==
  LET t == trim(text) IN t # << >> /\ t[Len(t)] = ";"

\* the issue is among the issues returned for the text
Reports(issue) ==
  \E i \in DOMAIN Get(checkResult).issues : Get(checkResult).issues[i] = issue

\* C17: two or more semicolons yield the 'Multiple statements' issue;
\* exactly one semicolon that is not the final character after trimming
\* yields the 'Semicolon in middle of query' issue; zero semicolons, or
\* exactly one that is the final character after trimming, yield neither.
C17_SemicolonRule ==
  Checked =>
    LET n == Cardinality(SemicolonPositions(sqlText))
        multiple == Reports("Multiple statements detected (SQL injection risk)")
        middle == Reports("Semicolon in middle of query (SQL injection risk)")
    IN /\ n >= 2 => multiple
       /\ (n = 1 /\ ~SemicolonIsFinal(sqlText)) => middle
       /\ (n = 0 \/ (n = 1 /\ SemicolonIsFinal(sqlText))) => (~multiple /\ ~middle)

\* one semicolon followed by white space only: final after trimming
C17_Witness ==
  /\ Checked
  /\ Cardinality(SemicolonPositions(sqlText)) = 1
  /\ sqlText[Len(sqlText)] = " "
  /\ SemicolonIsFinal(sqlText)
  /\ Get(checkResult).safe

\* C18: the verdict of checkQuerySafety has safe = true if and only if
\* its issues sequence is empty.
C18_SafeIffNoIssues ==
  Checked => (Get(checkResult).safe <=> Get(checkResult).issues = << >>)

\* a rejected text with three issues, one of them of a dangerous pattern
C18_Witness ==
  /\ Checked
  /\ ~Get(checkResult).safe
  /\ Len(Get(checkResult).issues) = 3
  /\ Reports("Dangerous pattern detected: /--/")

\* the upper-case fragment occurs somewhere in the text, given in upper
\* case
Contains(upper, fragment) ==
  \E i \in 1..(Len(upper) - Len(fragment) + 1) :
    /\ upper[i] = fragment[1]
    /\ SubSeq(upper, i, i + Len(fragment) - 1) = fragment

\* a semicolon of the text is followed, after white space or none, by one
\* of the keywords that start a statement
HasStackedStatement(text) ==
  \E i \in SemicolonPositions(text) :
    LET rest == trimStart(SubSeq(text, i + 1, Len(text)))
    IN \E word \in StackedKeywords :
         /\ Len(rest) >= Len(word)
         /\ SameLetters(SubSeq(rest, 1, Len(word)), word)

\* the text breaks none of the blocking rules: statement type, destructive
\* keywords, dangerous patterns, semicolons
BreaksNoRule(text) ==
  /\ BeginsWithSelect(text)
  /\ LET upper == toUpperCase(text)
     IN /\ \A n \in DOMAIN DESTRUCTIVE_KEYWORDS :
             ~HasWholeWord(upper, DESTRUCTIVE_KEYWORDS[n])
        /\ ~Contains(upper, << "-", "-" >>)
        /\ ~Contains(upper, << "/", "*" >>)
        /\ ~Contains(upper, << "X", "P", "_" >>)
        /\ ~Contains(upper, << "S", "P", "_" >>)
  /\ ~HasStackedStatement(text)
  /\ \/ SemicolonPositions(text) = { }
     \/ Cardinality(SemicolonPositions(text)) = 1 /\ SemicolonIsFinal(text)

\* C19: warnings never block.  For every text, safe is true exactly when
\* the text breaks none of the blocking rules, whether or not the
\* 'SELECT *' or the 'No LIMIT clause' warning is produced; 'SELECT * FROM
\* users' yields safe = true, no issues and both warnings; and a text found
\* safe is handed to execution whatever its warnings are.
C19_WarningsNeverBlock ==
  Checked =>
    /\ Get(checkResult).safe <=> BreaksNoRule(sqlText)
    /\ sqlText = textSelectStarUsers =>
         Get(checkResult) =
           [ safe |-> TRUE,
             issues |-> << >>,
             warnings |-> << "Using SELECT * - consider specifying columns",
                             "No LIMIT clause - query might return many rows" >> ]
    /\ (BreaksNoRule(sqlText) /\ submitted = null) =>
         ENABLED CallExecuteQuerySafe

\* 'SELECT * FROM users' was found safe with both warnings and was handed
\* to execution
C19_Witness ==
  /\ Checked
  /\ sqlText = textSelectStarUsers
  /\ Len(Get(checkResult).warnings) = 2
  /\ submitted # null
  /\ Get(submitted).text = textSelectStarUsers \o fragSpace \o << "L","I","M","I","T"," ","1","0","0" >>

\* C20: checkQuerySafety is deterministic and free of side effects.  Any
\* two calls on the same text, whatever calls on other texts are made
\* before and between them, return the same safe, issues and warnings; no
\* call changes the state of the module (the lastIndex of its patterns),
\* so that each call returns what a call on the freshly loaded module
\* returns.
C20_RepeatedCallsAgree ==
  /\ \A i \in DOMAIN callLog : \A j \in DOMAIN callLog :
       callLog[i].text = callLog[j].text => callLog[i].result = callLog[j].result
  /\ lastIndex = [ k \in 1..5 |-> 0 ]
  /\ \A i \in DOMAIN callLog :
       callLog[i].result = checkQuerySafety(callLog[i].text)

\* a text with a line comment was rejected twice, with a call on a text
\* with a stacked statement in between
C20_Witness ==
  /\ Len(callLog) = 3
  /\ callLog[1].text = respComment
  /\ callLog[2].text = respStacked
  /\ callLog[3].text = respComment
  /\ ~callLog[3].result.safe
  /\ callLog[3].result.issues = << "Dangerous pattern detected: /--/" >>
  /\ Len(callLog[2].result.issues) >= 3

\* a is an initial part of b
IsPrefix(a, b) == Len(a) <= Len(b) /\ SubSeq(b, 1, Len(a)) = a

\* C23 as stated: every transition adds its own entry to the trace, the
\* transition into the exhausted terminal state included: the trace of a
\* run that ended exhausted has one entry for each collaborator call and
\* one more for the exhaustion.
C23_ExhaustionHasItsOwnEntry ==
  (Returned /\ FailureKind = "exhausted") => Len(trace) = Len(calls) + 1

\* C23 amended: each of schema fetch, generation, safety check, execution
\* and summarization adds its own entry when it ends, on success and on
\* failure alike, so that at every moment the trace has exactly one entry
\* for each collaborator call made, in order; the transition into the
\* exhausted state adds none; and the trace is append-only.
C23_OneEntryPerStepAppendOnly ==
  /\ [](/\ Len(trace) = Len(calls)
        /\ \A i \in DOMAIN calls : EntryRecords(trace[i], calls[i], CallNumber(i)))
  /\ [][IsPrefix(trace, trace') /\ Len(trace') <= Len(trace) + 1]_vars

\* a run that ended exhausted: its last entry is that of the last check
C23_Witness ==
  /\ Returned
  /\ FailureKind = "exhausted"
  /\ Len(trace) = 1 + 2 * maxRetries
  /\ maxRetries >= 2
  /\ trace[Len(trace)].step = "safety_check"

\* the port of the call at position i of the call log
PortAt(i) == calls[i].port

\* C24: the collaborator calls of a request are serial and ordered.
\* extractSchema is called once and first; generateQuery and the safety
\* check alternate, every check being on the query the generation just
\* before it returned; the execution port is called at most once, right
\* after the last safety check, which found the query safe; the
\* summarization port is called at most once, right after a successful
\* execution; and the one call that is awaited is the one that follows
\* the last result.
C24_CallsAreSerialAndOrdered ==
  /\ (calls = << >>) <=> (pc = "extractSchema")
  /\ \A i \in DOMAIN calls :
       /\ (PortAt(i) = "extractSchema") <=> (i = 1)
       /\ IsGenerateCall(calls[i]) =>
            \/ i = 2 /\ calls[1].ok
            \/ i > 2 /\ IsCheckCall(calls[i - 1]) /\ ~calls[i - 1].verdict.safe
       /\ IsCheckCall(calls[i]) =>
            /\ IsGenerateCall(calls[i - 1])
            /\ calls[i - 1].ok
            /\ calls[i].query = Get(calls[i - 1].query)
       /\ IsExecutionCall(calls[i]) =>
            /\ IsCheckCall(calls[i - 1])
            /\ calls[i - 1].verdict.safe
            /\ calls[i].query = calls[i - 1].query
            /\ \A j \in (i + 1)..Len(calls) : ~IsCheckCall(calls[j])
       /\ IsSummarizeCall(calls[i]) =>
            /\ IsExecutionCall(calls[i - 1])
            /\ calls[i - 1].ok
            /\ i = Len(calls)
  /\ Len(ExecutionCalls) <= 1
  /\ Len(SummarizeCalls) <= 1
  /\ pc = "generateQuery" =>
       \/ Len(calls) = 1 /\ calls[1].ok
       \/ IsCheckCall(calls[Len(calls)]) /\ ~calls[Len(calls)].verdict.safe
  /\ pc = "safetyCheckNode" =>
       IsGenerateCall(calls[Len(calls)]) /\ calls[Len(calls)].ok
  /\ pc = "executionNode" =>
       IsCheckCall(calls[Len(calls)]) /\ calls[Len(calls)].verdict.safe
  /\ pc = "summarizeResults" =>
       IsExecutionCall(calls[Len(calls)]) /\ calls[Len(calls)].ok

\* a request that made all its calls: schema, three generations and
\* checks, execution, summary
C24_Witness ==
  /\ Returned
  /\ Len(calls) = 9
  /\ Len(GenerateCalls) = 3
  /\ Len(SummarizeCalls) = 1

\* the string p occurs in the string s
StringContains(s, p) ==
  \E i \in 1..(Len(s) - Len(p) + 1) : SubSeq(s, i, i + Len(p) - 1) = p

\* the sum of the lengths of the strings of a
RECURSIVE TotalLength(_)
TotalLength(a) == IF a = << >> THEN 0 ELSE Len(Head(a)) + TotalLength(Tail(a))

\* C25: the first generateQuery call of a run receives previousAttempt =
\* null and feedback = null; every later call receives the rejected query
\* and a feedback string that is made of the issues of the rejected
\* verdict and their separators, and that contains none of the warnings
\* of that verdict.
C25_FeedbackOnlyOnRetriesOnlyIssues ==
  /\ (pc = "generateQuery" /\ attempt = 1) =>
       previousQuery = null /\ safetyFeedback = null
  /\ \A i \in DOMAIN GenerateCalls :
       IF i = 1
         THEN /\ GenerateCalls[i].previousAttempt = null
              /\ GenerateCalls[i].feedback = null
         ELSE LET rejected == CheckCalls[i - 1].verdict
                  feedback == Get(GenerateCalls[i].feedback)
              IN /\ GenerateCalls[i].previousAttempt # null
                 /\ GenerateCalls[i].feedback # null
                 /\ \A n \in DOMAIN rejected.issues :
                      StringContains(feedback, rejected.issues[n])
                 /\ Len(feedback) = TotalLength(rejected.issues)
                                      + 2 * (Len(rejected.issues) - 1)
                 /\ \A n \in DOMAIN rejected.warnings :
                      ~StringContains(feedback, rejected.warnings[n])

\* a retry after a verdict with several issues and a warning
C25_Witness ==
  /\ Len(GenerateCalls) >= 2
  /\ Len(CheckCalls[1].verdict.issues) >= 2
  /\ CheckCalls[1].verdict.warnings # << >>
  /\ GenerateCalls[2].feedback # null

\* the positions a run can be at: awaiting a collaborator, or returned
Positions ==
  { "extractSchema", "generateQuery", "safetyCheckNode", "executionNode",
    "summarizeResults", "returned" }

\* C22: provided every collaborator call eventually returns or throws,
\* every run, whatever its question and its integer maxRetries, eventually
\* returns; what it returns is one result object, success or failure, that
\* never changes afterwards; and the run is never anywhere else than
\* awaiting a collaborator or returned: no exception leaves it.
C22_EveryRunReturnsOneResult ==
  /\ <>Returned
  /\ [](pc \in Positions)
  /\ [](Returned <=> result # undefined)
  /\ [](Returned => /\ Get(result).success \in BOOLEAN
                    /\ attempt <= (IF maxRetries > 0 THEN maxRetries ELSE 0))
  /\ [][Returned => (pc' = pc /\ result' = result)]_vars

\* a run with no budget returned, through the catch block
C22_Witness ==
  /\ Returned
  /\ maxRetries <= 0
  /\ Len(calls) = 1
  /\ Get(result).success = FALSE
  /\ Get(result).error = CatchAllReason

\* the prompt p shows the model the feedback text f
PromptShowsFeedback(p, f) ==
  p.correction # null /\ Get(p.correction).feedback = f

\* the prompt p shows the model the rejected text (the empty text is part
\* of every prompt)
PromptShowsAttempt(p, text) ==
  \/ text = << >>
  \/ p.correction # null /\ Get(p.correction).previousAttempt = text

\* the generateQuery calls that follow a rejected query
RetryCalls ==
  { i \in DOMAIN calls :
      i > 1 /\ IsGenerateCall(calls[i]) /\ IsCheckCall(calls[i - 1]) }

\* C26: on every retry the prompt built by generateQuery contains the
\* rejected SQL text and the feedback joined from its issues, an empty
\* generated text included.
C26_RetryPromptShowsRejection ==
  \A i \in RetryCalls :
    /\ PromptShowsAttempt(calls[i].prompt, calls[i - 1].query)
    /\ PromptShowsFeedback(calls[i].prompt,
                           Feedback(calls[i - 1].verdict.issues))

\* the source texts of the dangerous patterns, in the order of the list
PatternNames ==
  << "/;\\s*(DROP|DELETE|UPDATE|INSERT|TRUNCATE|ALTER|CREATE)/i",
     "/--/", "/\\/\\*/", "/xp_/i", "/sp_/i" >>

\* which dangerous patterns the text matches, in the order of the list
PatternMatched(text) ==
  LET upper == toUpperCase(text)
  IN << HasStackedStatement(text),
        Contains(upper, << "-", "-" >>),
        Contains(upper, << "/", "*" >>),
        Contains(upper, << "X", "P", "_" >>),
        Contains(upper, << "S", "P", "_" >> ) >>

\* the issue when the condition holds, nothing otherwise
IssueIf(condition, issue) == IF condition THEN << issue >> ELSE << >>

\* one issue for every rule the text breaks, in the order of the checks:
\* statement type, keywords in list order, patterns in list order,
\* semicolons
ExpectedIssues(text) ==
  LET upper == toUpperCase(text)
      n == Cardinality(SemicolonPositions(text))
  IN IssueIf(~BeginsWithSelect(text), "Query must be a SELECT statement")
     \o Select([ k \in DOMAIN KeywordNames |->
                   "Destructive keyword detected: " \o KeywordNames[k] ],
               [ k \in DOMAIN KeywordNames |->
                   HasWholeWord(upper, DESTRUCTIVE_KEYWORDS[k]) ])
     \o Select([ k \in DOMAIN PatternNames |->
                   "Dangerous pattern detected: " \o PatternNames[k] ],
               PatternMatched(text))
     \o IssueIf(n >= 2, "Multiple statements detected (SQL injection risk)")
     \o IssueIf(n = 1 /\ ~SemicolonIsFinal(text),
                "Semicolon in middle of query (SQL injection risk)")

\* C27: all issues accumulate and no check short-circuits the others.  For
\* every text the issues of checkQuerySafety are one entry for every rule
\* the text breaks (statement type, each matched destructive keyword, each
\* matched dangerous pattern, semicolons), in that order; 'DELETE FROM
\* users' yields the statement-type issue and the DELETE keyword issue.
C27_IssuesAccumulateInCheckOrder ==
  Checked =>
    /\ Get(checkResult).issues = ExpectedIssues(sqlText)
    /\ sqlText = textDeleteUsers =>
         Get(checkResult).issues =
           << "Query must be a SELECT statement",
              "Destructive keyword detected: DELETE" >>

\* a text that breaks a rule of each kind: five issues or more, the first
\* of the statement type and the last of the semicolons
C27_Witness ==
  /\ Checked
  /\ Len(Get(checkResult).issues) >= 5
  /\ Get(checkResult).issues[1] = "Query must be a SELECT statement"
  /\ Reports("Destructive keyword detected: DELETE")
  /\ Reports("Dangerous pattern detected: " \o PatternNames[1])
  /\ Get(checkResult).issues[Len(Get(checkResult).issues)] =
       "Semicolon in middle of query (SQL injection risk)"

\* the positions of the text, given in upper case, where the word occurs
Occurrences(upper, word) ==
  { i \in 1..(Len(upper) - Len(word) + 1) :
      upper[i] = word[1] /\ SubSeq(upper, i, i + Len(word) - 1) = word }

\* the occurrence of the word at position i is part of a longer run of
\* letters, digits and underscores
InsideIdentifier(upper, word, i) ==
  \/ i > 1 /\ IsWordChar(upper[i - 1])
  \/ i + Len(word) <= Len(upper) /\ IsWordChar(upper[i + Len(word)])

\* the word occurs in the text, and only inside longer identifiers
OnlyInsideIdentifiers(upper, word) ==
  /\ Occurrences(upper, word) # { }
  /\ \A i \in Occurrences(upper, word) : InsideIdentifier(upper, word, i)

\* C28: for every SELECT text in which a keyword K occurs only inside a
\* longer identifier made of letters, digits and underscores (updated_at),
\* checkQuerySafety produces no 'Destructive keyword detected: K' issue.
C28_KeywordInsideIdentifierNotFlagged ==
  (Checked /\ BeginsWithSelect(sqlText)) =>
    \A n \in DOMAIN DESTRUCTIVE_KEYWORDS :
      OnlyInsideIdentifiers(toUpperCase(sqlText), DESTRUCTIVE_KEYWORDS[n]) =>
        ~Reports("Destructive keyword detected: " \o KeywordNames[n])

\* a SELECT text with the column updated_at, found safe
C28_Witness ==
  /\ Checked
  /\ BeginsWithSelect(sqlText)
  /\ includes(sqlText, fragUpdatedAt)
  /\ OnlyInsideIdentifiers(toUpperCase(sqlText), kwUPDATE)
  /\ Get(checkResult).safe
  /\ Get(checkResult).issues = << >>

\* a semicolon of the text is followed, after white space or none, by one
\* of the destructive keywords of the closed list, in any letter case
HasSemicolonThenKeyword(text) ==
  \E i \in SemicolonPositions(text) :
    LET rest == trimStart(SubSeq(text, i + 1, Len(text)))
    IN \E n \in DOMAIN DESTRUCTIVE_KEYWORDS :
         /\ Len(rest) >= Len(DESTRUCTIVE_KEYWORDS[n])
         /\ SameLetters(SubSeq(rest, 1, Len(DESTRUCTIVE_KEYWORDS[n])),
                        DESTRUCTIVE_KEYWORDS[n])

\* which dangerous constructs the text contains: a stacked statement of
\* any destructive keyword, a line comment marker, a block comment opener,
\* the prefixes xp_ and sp_
DangerousConstructs(text) ==
  LET upper == toUpperCase(text)
  IN << HasSemicolonThenKeyword(text),
        Contains(upper, << "-", "-" >>),
        Contains(upper, << "/", "*" >>),
        Contains(upper, << "X", "P", "_" >>),
        Contains(upper, << "S", "P", "_" >> ) >>

\* C29: every text containing '--', '/*', 'xp_' or 'sp_' in any letter
\* case, or a semicolon followed after optional white space by any one of
\* the destructive keywords, is rejected, and each of these constructs
\* appends its own 'Dangerous pattern detected' issue.
C29_DangerousConstructsAreReported ==
  Checked =>
    \A k \in DOMAIN PatternNames :
      DangerousConstructs(sqlText)[k] =>
        /\ Get(checkResult).safe = FALSE
        /\ Reports("Dangerous pattern detected: " \o PatternNames[k])

\* this step ends a call of generateQuery or summarizeResults
PortCallEnds ==
  /\ pc \in { "generateQuery", "summarizeResults" }
  /\ Len(calls') = Len(calls) + 1

\* the calls of the model made for the port call in progress all failed
AllModelCallsFailed ==
  \A i \in DOMAIN HelperCalls : ~HelperCalls[i].ok

\* C30: safeGenerate makes at most retries + 1 calls of
\* model.generateContent; a successful call is its last, and its response
\* is what the port returns with success = true; the port returns success
\* = false only after all retries + 1 calls failed, with the message of
\* the last one; a request makes at most maxRetries * (retries + 1) calls
\* of the model for generation.
C30_SafeGenerateRetriesAreBounded ==
  /\ [](Len(modelLog) <= DefaultRetries + 1)
  /\ [](\A i \in DOMAIN modelLog : modelLog[i].ok => i = Len(modelLog))
  /\ [](modelCalls <= maxRetries * (DefaultRetries + 1))
  /\ [][(PortCallEnds /\ calls'[Len(calls')].ok) =>
          /\ HelperCalls # << >>
          /\ LastModelCall.ok
          /\ \A i \in 1..(Len(HelperCalls) - 1) : ~HelperCalls[i].ok
          /\ pc = "generateQuery" =>
               generatedQuery' = Val(cleanSQL(trim(LastModelCall.text)))
          /\ pc = "summarizeResults" =>
               Get(result').answer = LastModelCall.text]_vars
  /\ [][(PortCallEnds /\ ~calls'[Len(calls')].ok) =>
          /\ Len(HelperCalls) = DefaultRetries + 1
          /\ AllModelCallsFailed
          /\ Get(result').success = FALSE
          /\ Get(result').details = LastModelCall.message]_vars

\* a run with a budget of two attempts or more that used every call of
\* the model it may make: each attempt but the last got a rejected query
\* from the third call, and the third call of the last attempt failed
C30_Witness ==
  /\ Returned
  /\ maxRetries >= 2
  /\ modelCalls = maxRetries * (DefaultRetries + 1)
  /\ Len(modelLog) = DefaultRetries + 1
  /\ Get(result).error = "Failed to generate SQL query"
  /\ Get(result).details = "quota exceeded"
  /\ modelLog[1].message = "fetch failed"

\* C21: two runs interleaved at their awaits in any order are independent.
\* Every step of a run is a step the run takes alone from the same locals
\* with the same collaborator response, on the module as loaded, and it
\* leaves the locals of the other run (attempt, previousQuery,
\* safetyFeedback, safeQuery, trace, result) as they are; resuming the
\* other run changes no local of either run.  So each run goes through
\* the states, and returns the result, of the run alone.
C21_RunsAreIndependent ==
  [][/\ active' = active => (Next /\ parked' = parked)
     /\ active' # active =>
          (parked' = Val(Locals) /\ Locals' = Get(parked))]_vars

\* both runs had a query rejected and the next one accepted; the second
\* run has returned its answer while the first awaits its summary
C21_Witness ==
  /\ active = 2
  /\ Returned
  /\ Get(result).success
  /\ attempt = 2
  /\ parked # null
  /\ Get(parked).pc = "summarizeResults"
  /\ Get(parked).attempt = 2
  /\ Get(parked).previousQuery # previousQuery

\* no collaborator call of the run threw or returned success: false
NoCollaboratorFailed ==
  \A i \in DOMAIN calls : IsCheckCall(calls[i]) \/ calls[i].ok

\* C32: the catch-all result is produced only when a collaborator throws.
\* For every integer maxRetries, zero and negative included, a run in
\* which no collaborator throws or fails ends in success or in the
\* refinement failure with attempts equal to the number of generation
\* calls made and lastIssues defined.
C32_CatchAllOnlyWhenCollaboratorThrows ==
  (Returned /\ NoCollaboratorFailed) =>
    \/ Get(result).success
    \/ /\ Get(result).error = ExplicitReasons.exhausted
       /\ Get(result).attempts = Len(GenerateCalls)
       /\ "lastIssues" \in DOMAIN Get(result)

\* C31: the SQL text submitted to the database is itself safe.  For every
\* accepted query and every maxRows that the /ask request body can carry,
\* the text passed to pool.query is the trimmed query, or the trimmed
\* query without its final semicolon followed by ' LIMIT <maxRows>', and
\* checkQuerySafety of that text returns safe = true.
C31_SubmittedTextIsSafe ==
  AcceptedAndSubmitted =>
    LET sent == Get(submitted).text
    IN /\ \/ sent = trim(sqlText)
          \/ sent = RemoveFinalSemicolon(trim(sqlText))
                      \o << " ", "L", "I", "M", "I", "T", " " >>
                      \o Get(submitted).maxRows
       /\ checkQuerySafety(sent).safe

\* the response displayed last
LatestShown == shown[Len(shown)]

\* the warning blocks the latest response calls for: one block when it is
\* a success with warnings
LatestWarningBlocks ==
  IF LatestShown.success /\ LatestShown.metadata.warnings # << >>
    THEN << LatestShown.metadata.warnings >>
    ELSE << >>

\* the trace blocks the latest response calls for: one block when it is a
\* failure with a trace
LatestTraceBlocks ==
  IF ~LatestShown.success /\ LatestShown.trace # undefined
    THEN << Get(LatestShown.trace) >>
    ELSE << >>

\* C33: after any sequence of askQuestion calls, the warnings and error
\* traces on screen are exactly those of the response displayed last: a
\* visible response card or error card holds no warning block or trace
\* block of an earlier response.
C33_OnlyLatestBlocksVisible ==
  shown # << >> =>
    /\ ~Get(dom).responseCard.hidden =>
         Get(dom).responseCard.blocks = LatestWarningBlocks
    /\ ~Get(dom).errorCard.hidden =>
         Get(dom).errorCard.blocks = LatestTraceBlocks

====
